---- MODULE Spec2Model ----
(***************************************************************************)
(* Model of the audit sampling engine (src/src/utils/samplingLogic.ts).    *)
(*                                                                         *)
(* JavaScript strings are modelled as sequences of one-character strings,  *)
(* so that toUpperCase, trim and includes are computed and not assumed.    *)
(* Amounts are integers (cents).  A transaction carries `pos`, its index   *)
(* in the input array: it stands for the identity of the object that the   *)
(* spread copies `{...t}` and `{...txn}` are made from.  An absent id (any *)
(* falsy value of `t.id`) is the empty string "".                          *)
(*                                                                         *)
(* The parsers (detectHierarchicalGLFormat, parseHierarchicalGL,           *)
(* parseRawData) read cells of any JavaScript type: a cell is a record of  *)
(* its typeof tag, its characters and its number, and a number is finite   *)
(* (in cents), NaN or an infinity, so that String(), parseFloat and the    *)
(* regular-expression replacements are computed on the characters.         *)
(***************************************************************************)
EXTENDS Integers, Sequences, FiniteSets, TLC

VARIABLES
    rawTransactions,       \* argument of performSampling
    config,                \* argument of performSampling
    pc,                    \* "idle" before the call, "done" after it, "again" after a second
                           \* call; "detected", "parsedGL", "parsedFlat" after a parser call
    transactionsWithIds,   \* local of performSampling (line 356)
    filteredTransactions,  \* local of performSampling (line 362)
    accountGroups,         \* local of performSampling (line 368)
    materialAccounts,      \* local of performSampling (line 371)
    results,               \* value returned by the latest call
    prevResults,           \* value returned by the call before it
    rawData,               \* the grid of the sheet (sheet_to_json with header: 1)
    data,                  \* the records of the file (argument of parseRawData)
    isHierarchicalGL,      \* value returned by detectHierarchicalGLFormat
    parsedTransactions,    \* value returned by parseHierarchicalGL or parseRawData
    prevParsedTransactions, \* value returned by the parser call before it
    warnings,              \* the console.warn calls made so far
    appRawData,            \* App state rawData: the transactions loaded
    appResults,            \* App state results: <<>> for null, <<r>> for r
    isProcessing,          \* App state isProcessing
    error,                 \* App state error: <<>> for null, <<m>> for m
    snackbar,              \* App state snackbar
    timers,                \* the callbacks passed to setTimeout and not yet run
    newKeyword             \* ConfigPanel state newKeyword

vars == <<rawTransactions, config, pc, transactionsWithIds, filteredTransactions,
          accountGroups, materialAccounts, results, prevResults,
          rawData, data, isHierarchicalGL, parsedTransactions,
          prevParsedTransactions, warnings,
          appRawData, appResults, isProcessing, error, snackbar, timers,
          newKeyword>>

\* The variables of performSampling and those of the file parsers
samplingVars == <<rawTransactions, config, transactionsWithIds,
                  filteredTransactions, accountGroups, materialAccounts,
                  results, prevResults>>

sheetVars == <<rawData, data, isHierarchicalGL, parsedTransactions,
               prevParsedTransactions, warnings>>

\* The locals of performSampling, without its config
callVars == <<rawTransactions, transactionsWithIds, filteredTransactions,
              accountGroups, materialAccounts, results, prevResults>>

\* The state of App and of ConfigPanel, without the config
appVars == <<appRawData, appResults, isProcessing, error, snackbar, timers,
             newKeyword>>

----------------------------------------------------------------------------
(* Bounds of the model *)

MaxTxns == 3
MaxSampleSize == 2

----------------------------------------------------------------------------
(* Generic helpers *)

Abs(x) == IF x < 0 THEN -x ELSE x

SetMin(S) == CHOOSE x \in S : \A y \in S : x <= y

SetMax(S) == CHOOSE x \in S : \A y \in S : x >= y

RECURSIVE SumSeq(_)
SumSeq(s) == IF s = <<>> THEN 0 ELSE Head(s) + SumSeq(Tail(s))

MapSeq(s, Op(_)) == [i \in 1..Len(s) |-> Op(s[i])]

Range(s) == {s[i] : i \in 1..Len(s)}

SeqsUpTo(S, n) == UNION {[1..k -> S] : k \in 0..n}

----------------------------------------------------------------------------
(* JavaScript string primitives *)

\* String.prototype.toUpperCase, on the characters the model draws from
UpperChar(c) ==
    CASE c = "a" -> "A"
      [] c = "p" -> "P"
      [] OTHER -> c

ToUpperCase(s) == [i \in 1..Len(s) |-> UpperChar(s[i])]

IsWhiteSpace(c) == c \in {" ", "\t"}

\* String.prototype.trim: white space removed at both ends, kept inside
Trim(s) ==
    LET keep == {i \in 1..Len(s) : ~IsWhiteSpace(s[i])}
    IN  IF keep = {} THEN <<>> ELSE SubSeq(s, SetMin(keep), SetMax(keep))

\* String.prototype.includes
Includes(s, k) ==
    \E i \in 0..(Len(s) - Len(k)) : SubSeq(s, i + 1, i + Len(k)) = k

IsDigit(c) == c \in {"0", "1", "2", "3", "4", "5", "6", "7", "8", "9"}

DigitValue(c) ==
    CASE c = "0" -> 0 [] c = "1" -> 1 [] c = "2" -> 2 [] c = "3" -> 3
      [] c = "4" -> 4 [] c = "5" -> 5 [] c = "6" -> 6 [] c = "7" -> 7
      [] c = "8" -> 8 [] c = "9" -> 9

RECURSIVE ToNumber(_)
ToNumber(s) ==
    IF s = <<>> THEN 0
    ELSE 10 * ToNumber(SubSeq(s, 1, Len(s) - 1)) + DigitValue(s[Len(s)])

\* A property key that is an array index (a canonical numeric string below
\* 2^32 - 1): own keys of this kind are enumerated first, in numeric order.
IsArrayIndex(s) ==
    /\ Len(s) > 0
    /\ Len(s) <= 9
    /\ \A i \in 1..Len(s) : IsDigit(s[i])
    /\ (Len(s) > 1 => s[1] # "0")

----------------------------------------------------------------------------
(* generateId and the id backfill of performSampling *)

\* The values `txn_${Date.now()}_${Math.random()...}` can take: the clock and
\* the random source are free, so two draws may or may not be equal, and a
\* draw may equal an id the caller supplied.  Every draw is non-empty.
GeneratedIds == {"txn_1", "txn_2"}

\* Mutant: generateId is called for every element (`id: generateId()`)
MissingIdsAll(raw) == 1..Len(raw)

\* The indices for which `t.id || generateId()` calls generateId: those whose
\* id is falsy
MissingIds(raw) == {i \in 1..Len(raw) : raw[i].id = ""}

\* rawTransactions.map((t) => ({ ...t, id: t.id || generateId() }));
\* gen[i] is the value generateId returns for the element at index i.
backfillIds(raw, gen) ==
    [i \in 1..Len(raw) |->
        [raw[i] EXCEPT !.id = IF i \in MissingIds(raw) THEN gen[i] ELSE raw[i].id]]

----------------------------------------------------------------------------
(* filterByKeywords *)

\* Mutant: an empty keyword list keeps nothing
filterByKeywordsEmptyExcludes(transactions, keywords) ==
    LET validKeywords == SelectSeq(keywords, LAMBDA k : Trim(k) # <<>>)
        upperKeywords == [i \in 1..Len(validKeywords) |->
                              Trim(ToUpperCase(validKeywords[i]))]
        keep(txn) == \E i \in 1..Len(upperKeywords) :
                         Includes(ToUpperCase(txn.accountName), upperKeywords[i])
    IN  SelectSeq(transactions, keep)

\* Mutant: the keywords are upper-cased but not trimmed
filterByKeywordsNoTrim(transactions, keywords) ==
    LET validKeywords == SelectSeq(keywords, LAMBDA k : Trim(k) # <<>>)
        upperKeywords == [i \in 1..Len(validKeywords) |->
                              ToUpperCase(validKeywords[i])]
        keep(txn) == \E i \in 1..Len(upperKeywords) :
                         Includes(ToUpperCase(txn.accountName), upperKeywords[i])
    IN  IF Len(validKeywords) = 0
        THEN transactions
        ELSE SelectSeq(transactions, keep)

filterByKeywords(transactions, keywords) ==
    LET validKeywords == SelectSeq(keywords, LAMBDA k : Trim(k) # <<>>)
        upperKeywords == [i \in 1..Len(validKeywords) |->
                              Trim(ToUpperCase(validKeywords[i]))]
        keep(txn) == \E i \in 1..Len(upperKeywords) :
                         Includes(ToUpperCase(txn.accountName), upperKeywords[i])
    IN  IF Len(validKeywords) = 0
        THEN transactions
        ELSE SelectSeq(transactions, keep)

----------------------------------------------------------------------------
(* groupByAccount *)

\* _.groupBy(transactions, "accountName") creates one property per distinct
\* accountName, in the order the names are first seen.
RECURSIVE CreatedKeys(_, _)
CreatedKeys(transactions, seen) ==
    IF transactions = <<>> THEN seen
    ELSE CreatedKeys(Tail(transactions),
                     IF Head(transactions).accountName \in Range(seen)
                     THEN seen
                     ELSE Append(seen, Head(transactions).accountName))

RECURSIVE SortNumeric(_)
SortNumeric(keys) ==
    IF keys = <<>> THEN <<>>
    ELSE LET rest == SortNumeric(Tail(keys))
             k == Cardinality({i \in 1..Len(rest) :
                                   ToNumber(rest[i]) < ToNumber(Head(keys))})
         IN  SubSeq(rest, 1, k) \o <<Head(keys)>> \o SubSeq(rest, k + 1, Len(rest))

\* Object.entries enumerates the own keys of an object: the array-index keys
\* in ascending numeric order, then the other string keys in creation order.
ObjectEntriesKeys(created) ==
    SortNumeric(SelectSeq(created, IsArrayIndex))
        \o SelectSeq(created, LAMBDA k : ~IsArrayIndex(k))

\* Mutant: totalBalance sums the signed amounts
groupByAccountSigned(transactions) ==
    LET keys == ObjectEntriesKeys(CreatedKeys(transactions, <<>>))
        grouped(name) == SelectSeq(transactions, LAMBDA t : t.accountName = name)
    IN  [i \in 1..Len(keys) |->
            LET txns == grouped(keys[i])
            IN  [accountName |-> keys[i],
                 accountNumber |-> txns[1].accountNumber,
                 transactions |-> txns,
                 totalBalance |-> SumSeq([j \in 1..Len(txns) |-> txns[j].amount]),
                 transactionCount |-> Len(txns)]]

groupByAccount(transactions) ==
    LET keys == ObjectEntriesKeys(CreatedKeys(transactions, <<>>))
        grouped(name) == SelectSeq(transactions, LAMBDA t : t.accountName = name)
    IN  [i \in 1..Len(keys) |->
            LET txns == grouped(keys[i])
            IN  [accountName |-> keys[i],
                 accountNumber |-> txns[1].accountNumber,
                 transactions |-> txns,
                 totalBalance |-> SumSeq([j \in 1..Len(txns) |-> Abs(txns[j].amount)]),
                 transactionCount |-> Len(txns)]]

----------------------------------------------------------------------------
(* identifyMaterialAccounts *)

\* Mutant: the threshold is not strict
identifyMaterialAccountsInclusive(groups, tolerableMisstatement) ==
    SelectSeq(groups, LAMBDA group : group.totalBalance >= tolerableMisstatement)

identifyMaterialAccounts(groups, tolerableMisstatement) ==
    SelectSeq(groups, LAMBDA group : group.totalBalance > tolerableMisstatement)

----------------------------------------------------------------------------
(* selectSamplesFromAccount *)

\* _.orderBy(transactions, [(t) => Math.abs(t.amount)], ["desc"]): a stable
\* sort, equal keys keep their input order.
RECURSIVE OrderByAbsDesc(_)
OrderByAbsDesc(s) ==
    IF s = <<>> THEN <<>>
    ELSE LET rest == OrderByAbsDesc(SubSeq(s, 1, Len(s) - 1))
             t == s[Len(s)]
             k == Cardinality({i \in 1..Len(rest) :
                                   Abs(rest[i].amount) >= Abs(t.amount)})
         IN  SubSeq(rest, 1, k) \o <<t>> \o SubSeq(rest, k + 1, Len(rest))

\* Mutant: groupTotalBalance copies the transaction's own amount
MakeSampleOwnAmount(txn, reason, accountGroup) ==
    [id |-> txn.id,
     accountNumber |-> txn.accountNumber,
     accountName |-> txn.accountName,
     amount |-> txn.amount,
     pos |-> txn.pos,
     selectionReason |-> reason,
     accountGroup |-> accountGroup.accountName,
     groupTotalBalance |-> Abs(txn.amount)]

\* The SelectedSample pushed for txn: { ...txn, selectionReason, accountGroup,
\* groupTotalBalance }
MakeSample(txn, reason, accountGroup) ==
    [id |-> txn.id,
     accountNumber |-> txn.accountNumber,
     accountName |-> txn.accountName,
     amount |-> txn.amount,
     pos |-> txn.pos,
     selectionReason |-> reason,
     accountGroup |-> accountGroup.accountName,
     groupTotalBalance |-> accountGroup.totalBalance]

\* Mutant: the loop breaks one push late (`>` for `>=`)
RECURSIVE PushUntilOverfull(_, _, _, _, _)
PushUntilOverfull(selectedSamples, txns, sampleSize, reason, accountGroup) ==
    IF txns = <<>> \/ Len(selectedSamples) > sampleSize
    THEN selectedSamples
    ELSE PushUntilOverfull(Append(selectedSamples,
                                  MakeSample(Head(txns), reason, accountGroup)),
                           Tail(txns), sampleSize, reason, accountGroup)

\* Mutant: the loop breaks only at the exact size (`===` for `>=`)
RECURSIVE PushUntilExact(_, _, _, _, _)
PushUntilExact(selectedSamples, txns, sampleSize, reason, accountGroup) ==
    IF txns = <<>> \/ Len(selectedSamples) = sampleSize
    THEN selectedSamples
    ELSE PushUntilExact(Append(selectedSamples,
                               MakeSample(Head(txns), reason, accountGroup)),
                        Tail(txns), sampleSize, reason, accountGroup)

\* for (const txn of txns) { if (selectedSamples.length >= sampleSize) break;
\*                           selectedSamples.push({...}) }
RECURSIVE PushUntilFull(_, _, _, _, _)
PushUntilFull(selectedSamples, txns, sampleSize, reason, accountGroup) ==
    IF txns = <<>> \/ Len(selectedSamples) >= sampleSize
    THEN selectedSamples
    ELSE PushUntilFull(Append(selectedSamples,
                              MakeSample(Head(txns), reason, accountGroup)),
                       Tail(txns), sampleSize, reason, accountGroup)

\* Mutant: Priority 1 takes the transactions at the testing scope too (`>=`)
selectSamplesInclusiveScope(accountGroup, cfg) ==
    LET sortedTransactions == OrderByAbsDesc(accountGroup.transactions)
        overScopeTransactions ==
            SelectSeq(sortedTransactions,
                      LAMBDA t : Abs(t.amount) >= cfg.testingScope)
        priority1 == PushUntilFull(<<>>, overScopeTransactions, cfg.sampleSize,
                                   "OVER_SCOPE", accountGroup)
        selectedIds == {priority1[i].id : i \in 1..Len(priority1)}
        remainingTransactions ==
            SelectSeq(sortedTransactions, LAMBDA t : t.id \notin selectedIds)
    IN  IF Len(priority1) < cfg.sampleSize
        THEN PushUntilFull(priority1, remainingTransactions, cfg.sampleSize,
                           "HIGH_VALUE_KEY_ITEM", accountGroup)
        ELSE priority1

\* Mutant: Priority 2 walks the sorted transactions without skipping the
\* ones Priority 1 chose
selectSamplesNoSkip(accountGroup, cfg) ==
    LET sortedTransactions == OrderByAbsDesc(accountGroup.transactions)
        overScopeTransactions ==
            SelectSeq(sortedTransactions,
                      LAMBDA t : Abs(t.amount) > cfg.testingScope)
        priority1 == PushUntilFull(<<>>, overScopeTransactions, cfg.sampleSize,
                                   "OVER_SCOPE", accountGroup)
    IN  IF Len(priority1) < cfg.sampleSize
        THEN PushUntilFull(priority1, sortedTransactions, cfg.sampleSize,
                           "HIGH_VALUE_KEY_ITEM", accountGroup)
        ELSE priority1

selectSamplesFromAccount(accountGroup, cfg) ==
    LET sortedTransactions == OrderByAbsDesc(accountGroup.transactions)
        overScopeTransactions ==
            SelectSeq(sortedTransactions,
                      LAMBDA t : Abs(t.amount) > cfg.testingScope)
        priority1 == PushUntilFull(<<>>, overScopeTransactions, cfg.sampleSize,
                                   "OVER_SCOPE", accountGroup)
        selectedIds == {priority1[i].id : i \in 1..Len(priority1)}
        remainingTransactions ==
            SelectSeq(sortedTransactions, LAMBDA t : t.id \notin selectedIds)
    IN  IF Len(priority1) < cfg.sampleSize
        THEN PushUntilFull(priority1, remainingTransactions, cfg.sampleSize,
                           "HIGH_VALUE_KEY_ITEM", accountGroup)
        ELSE priority1

----------------------------------------------------------------------------
(* calculateSummary *)

\* Mutant: the quotient is taken without the guard on the denominator
calculateSummaryUnguarded(samples, material) ==
    LET totalValueTested ==
            SumSeq([i \in 1..Len(samples) |-> Abs(samples[i].amount)])
        totalMaterialBalance ==
            SumSeq([i \in 1..Len(material) |-> material[i].totalBalance])
    IN  [totalMaterialAccounts |-> Len(material),
         totalValueTested |-> totalValueTested,
         totalMaterialBalance |-> totalMaterialBalance,
         coveragePercentage |->
             [num |-> totalValueTested * 100, den |-> totalMaterialBalance],
         totalTransactionsReviewed |->
             SumSeq([i \in 1..Len(material) |-> material[i].transactionCount]),
         overScopeCount |->
             Len(SelectSeq(samples, LAMBDA s : s.selectionReason = "OVER_SCOPE")),
         highValueCount |->
             Len(SelectSeq(samples,
                           LAMBDA s : s.selectionReason = "HIGH_VALUE_KEY_ITEM"))]

\* Mutant: totalValueTested sums the signed amounts
calculateSummarySigned(samples, material) ==
    LET totalValueTested ==
            SumSeq([i \in 1..Len(samples) |-> samples[i].amount])
        totalMaterialBalance ==
            SumSeq([i \in 1..Len(material) |-> material[i].totalBalance])
    IN  [totalMaterialAccounts |-> Len(material),
         totalValueTested |-> totalValueTested,
         totalMaterialBalance |-> totalMaterialBalance,
         coveragePercentage |->
             IF totalMaterialBalance > 0
             THEN [num |-> totalValueTested * 100, den |-> totalMaterialBalance]
             ELSE [num |-> 0, den |-> 1],
         totalTransactionsReviewed |->
             SumSeq([i \in 1..Len(material) |-> material[i].transactionCount]),
         overScopeCount |->
             Len(SelectSeq(samples, LAMBDA s : s.selectionReason = "OVER_SCOPE")),
         highValueCount |->
             Len(SelectSeq(samples,
                           LAMBDA s : s.selectionReason = "HIGH_VALUE_KEY_ITEM"))]

\* coveragePercentage is the exact quotient num / den (den > 0).
calculateSummary(samples, material) ==
    LET totalValueTested ==
            SumSeq([i \in 1..Len(samples) |-> Abs(samples[i].amount)])
        totalMaterialBalance ==
            SumSeq([i \in 1..Len(material) |-> material[i].totalBalance])
    IN  [totalMaterialAccounts |-> Len(material),
         totalValueTested |-> totalValueTested,
         totalMaterialBalance |-> totalMaterialBalance,
         coveragePercentage |->
             IF totalMaterialBalance > 0
             THEN [num |-> totalValueTested * 100, den |-> totalMaterialBalance]
             ELSE [num |-> 0, den |-> 1],
         totalTransactionsReviewed |->
             SumSeq([i \in 1..Len(material) |-> material[i].transactionCount]),
         overScopeCount |->
             Len(SelectSeq(samples, LAMBDA s : s.selectionReason = "OVER_SCOPE")),
         highValueCount |->
             Len(SelectSeq(samples,
                           LAMBDA s : s.selectionReason = "HIGH_VALUE_KEY_ITEM"))]

----------------------------------------------------------------------------
(* performSampling *)

\* Mutant: the selections are concatenated last account first
RECURSIVE SelectAllReversed(_, _)
SelectAllReversed(material, cfg) ==
    IF material = <<>> THEN <<>>
    ELSE SelectAllReversed(Tail(material), cfg)
             \o selectSamplesFromAccount(Head(material), cfg)

\* Mutant: the samples of each account are pushed twice
RECURSIVE SelectAllDoubled(_, _)
SelectAllDoubled(material, cfg) ==
    IF material = <<>> THEN <<>>
    ELSE selectSamplesFromAccount(Head(material), cfg)
             \o selectSamplesFromAccount(Head(material), cfg)
             \o SelectAllDoubled(Tail(material), cfg)

\* for (const accountGroup of materialAccounts) allSamples.push(...samples)
RECURSIVE SelectAll(_, _)
SelectAll(material, cfg) ==
    IF material = <<>> THEN <<>>
    ELSE selectSamplesFromAccount(Head(material), cfg) \o SelectAll(Tail(material), cfg)

\* Mutant: the ids are written into the caller's objects
\* (rawTransactions.forEach((t) => { t.id = t.id || generateId() }))
ArgumentAfterMapInPlace(raw, mapped) == mapped

\* The caller's array once `.map((t) => ({ ...t, id: ... }))` has run: map
\* returns a new array and the callback writes to the copy made by the
\* spread, so every element is as it was passed. The later steps (filter,
\* groupBy, orderBy, push({ ...txn, ... })) build new arrays and objects too.
ArgumentAfterMap(raw, mapped) == raw

\* The locals and the returned value of one call; gen gives generateId's draws.
performSampling(raw, cfg, gen) ==
    LET withIds == backfillIds(raw, gen)
        filtered == filterByKeywords(withIds, cfg.targetKeywords)
        groups == groupByAccount(filtered)
        material == identifyMaterialAccounts(groups, cfg.tolerableMisstatement)
        allSamples == SelectAll(material, cfg)
    IN  [rawTransactions |-> ArgumentAfterMap(raw, withIds),
         config |-> cfg,
         transactionsWithIds |-> withIds,
         filteredTransactions |-> filtered,
         accountGroups |-> groups,
         materialAccounts |-> material,
         results |-> [samples |-> allSamples,
                      summary |-> calculateSummary(allSamples, material),
                      accountGroups |-> material,
                      filteredTransactionCount |-> Len(filtered)]]

----------------------------------------------------------------------------
(* Cells of a sheet (unknown[][]) and their JavaScript conversions *)

\* A number: finite (v in cents, two decimal places), NaN, or an infinity
\* (v its sign).
Fin(v) == [k |-> "fin", v |-> v]
NaN == [k |-> "nan", v |-> 0]
Inf(sign) == [k |-> "inf", v |-> sign]

\* A cell: t is its typeof tag ("null" for null), s the characters of a
\* string, n the value of a number (1 / 0 for the booleans)
Null == [t |-> "null", s |-> <<>>, n |-> Fin(0)]
Undefined == [t |-> "undefined", s |-> <<>>, n |-> Fin(0)]
Str(s) == [t |-> "string", s |-> s, n |-> Fin(0)]
Num(n) == [t |-> "number", s |-> <<>>, n |-> n]
Bool(b) == [t |-> "boolean", s |-> <<>>, n |-> Fin(IF b THEN 100 ELSE 0)]

\* row[idx] with idx counted from 0; undefined past the end of the row and
\* for the index -1 of a column that was not found
At(row, idx) == IF idx >= 0 /\ idx < Len(row) THEN row[idx + 1] ELSE Undefined

\* ToBoolean
Truthy(c) ==
    CASE c.t = "string" -> c.s # <<>>
      [] c.t = "number" -> c.n.k = "inf" \/ (c.n.k = "fin" /\ c.n.v # 0)
      [] c.t = "boolean" -> c.n.v # 0
      [] OTHER -> FALSE

\* c || ""
OrEmpty(c) == IF Truthy(c) THEN c ELSE Str(<<>>)

DigitChar(d) ==
    CASE d = 0 -> "0" [] d = 1 -> "1" [] d = 2 -> "2" [] d = 3 -> "3"
      [] d = 4 -> "4" [] d = 5 -> "5" [] d = 6 -> "6" [] d = 7 -> "7"
      [] d = 8 -> "8" [] d = 9 -> "9"

RECURSIVE NatToString(_)
NatToString(n) ==
    IF n < 10 THEN <<DigitChar(n)>>
    ELSE NatToString(n \div 10) \o <<DigitChar(n % 10)>>

\* Number.prototype.toString of a number
NumToString(n) ==
    CASE n.k = "nan" -> <<"N", "a", "N">>
      [] n.k = "inf" ->
             (IF n.v < 0 THEN <<"-">> ELSE <<>>)
                 \o <<"I", "n", "f", "i", "n", "i", "t", "y">>
      [] OTHER ->
             LET a == Abs(n.v)
                 frac == a % 100
             IN  (IF n.v < 0 THEN <<"-">> ELSE <<>>)
                     \o NatToString(a \div 100)
                     \o (CASE frac = 0 -> <<>>
                           [] frac % 10 = 0 -> <<".", DigitChar(frac \div 10)>>
                           [] OTHER -> <<".", DigitChar(frac \div 10),
                                         DigitChar(frac % 10)>>)

\* String(c)
ToStr(c) ==
    CASE c.t = "string" -> c.s
      [] c.t = "number" -> NumToString(c.n)
      [] c.t = "boolean" ->
             IF c.n.v # 0 THEN <<"t", "r", "u", "e">>
             ELSE <<"f", "a", "l", "s", "e">>
      [] c.t = "null" -> <<"n", "u", "l", "l">>
      [] OTHER -> <<"u", "n", "d", "e", "f", "i", "n", "e", "d">>

\* String.prototype.toLowerCase
LowerChar(c) ==
    CASE c = "A" -> "a" [] c = "B" -> "b" [] c = "C" -> "c" [] c = "D" -> "d"
      [] c = "E" -> "e" [] c = "F" -> "f" [] c = "G" -> "g" [] c = "H" -> "h"
      [] c = "I" -> "i" [] c = "J" -> "j" [] c = "K" -> "k" [] c = "L" -> "l"
      [] c = "M" -> "m" [] c = "N" -> "n" [] c = "O" -> "o" [] c = "P" -> "p"
      [] c = "Q" -> "q" [] c = "R" -> "r" [] c = "S" -> "s" [] c = "T" -> "t"
      [] c = "U" -> "u" [] c = "V" -> "v" [] c = "W" -> "w" [] c = "X" -> "x"
      [] c = "Y" -> "y" [] c = "Z" -> "z"
      [] OTHER -> c

ToLowerCase(s) == [i \in 1..Len(s) |-> LowerChar(s[i])]

\* String.prototype.startsWith
StartsWith(s, k) == Len(s) >= Len(k) /\ SubSeq(s, 1, Len(k)) = k

\* Array.prototype.join(" ")
RECURSIVE JoinSpace(_)
JoinSpace(strs) ==
    IF strs = <<>> THEN <<>>
    ELSE IF Len(strs) = 1 THEN strs[1]
    ELSE strs[1] \o <<" ">> \o JoinSpace(Tail(strs))

\* The length of the longest prefix of s made of digits
RECURSIVE DigitPrefixLen(_)
DigitPrefixLen(s) ==
    IF s # <<>> /\ IsDigit(Head(s)) THEN 1 + DigitPrefixLen(Tail(s)) ELSE 0

\* parseFloat: leading white space is skipped, then the longest prefix that is
\* a StrDecimalLiteral is read (sign, then Infinity or digits with an optional
\* fraction); NaN when there is none.  Fraction digits after the second are
\* below the cent and not kept; no string drawn has an exponent part.
ParseFloat(str) ==
    LET nonWs == {i \in 1..Len(str) : ~IsWhiteSpace(str[i])}
        s == IF nonWs = {} THEN <<>> ELSE SubSeq(str, SetMin(nonWs), Len(str))
        signed == s # <<>> /\ s[1] \in {"+", "-"}
        sign == IF s # <<>> /\ s[1] = "-" THEN -1 ELSE 1
        rest == IF signed THEN Tail(s) ELSE s
        intLen == DigitPrefixLen(rest)
        afterInt == SubSeq(rest, intLen + 1, Len(rest))
        hasDot == afterInt # <<>> /\ afterInt[1] = "."
        fracAll == IF hasDot THEN Tail(afterInt) ELSE <<>>
        fracLen == DigitPrefixLen(fracAll)
        frac == SubSeq(fracAll, 1, fracLen)
        cents == (IF fracLen >= 1 THEN 10 * DigitValue(frac[1]) ELSE 0)
                     + (IF fracLen >= 2 THEN DigitValue(frac[2]) ELSE 0)
    IN  IF StartsWith(rest, <<"I", "n", "f", "i", "n", "i", "t", "y">>)
        THEN Inf(sign)
        ELSE IF intLen = 0 /\ fracLen = 0 THEN NaN
        ELSE Fin(sign * (100 * ToNumber(SubSeq(rest, 1, intLen)) + cents))

----------------------------------------------------------------------------
(* The grid of a sheet and the header test shared by both GL functions *)

\* An entry of rawData: an array of cells, or null (isArray FALSE)
Row(cells) == [isArray |-> TRUE, cells |-> cells]
NoRow == [isArray |-> FALSE, cells |-> <<>>]

\* rawData[i] with i counted from 0; undefined (here NoRow) past the end
RowAt(grid, i) ==
    IF i >= 0 /\ i < Len(grid) THEN grid[i + 1] ELSE NoRow

Min(a, b) == IF a < b THEN a ELSE b

StrDate == <<"d", "a", "t", "e">>
StrAmount == <<"a", "m", "o", "u", "n", "t">>
StrBalance == <<"b", "a", "l", "a", "n", "c", "e">>
StrTotal == <<"t", "o", "t", "a", "l">>
StrBeginningBalance ==
    <<"b", "e", "g", "i", "n", "n", "i", "n", "g", " ",
      "b", "a", "l", "a", "n", "c", "e">>

\* row.map((c) => String(c || "").toLowerCase()).join(" ")
RowStr(cells) ==
    JoinSpace([i \in 1..Len(cells) |-> ToLowerCase(ToStr(OrEmpty(cells[i])))])

\* rowStr.includes("date") && (rowStr.includes("amount") || rowStr.includes("balance"))
IsHeaderRow(row) ==
    /\ row.isArray
    /\ Includes(RowStr(row.cells), StrDate)
    /\ \/ Includes(RowStr(row.cells), StrAmount)
       \/ Includes(RowStr(row.cells), StrBalance)

----------------------------------------------------------------------------
(* detectHierarchicalGLFormat *)

\* rawData.length < 10
MinRows == 10
\* i < Math.min(10, rawData.length)
HeaderScanRows == 10
\* j < Math.min(i + 10, rawData.length)
Lookahead == 10

\* dataRow && dataRow[0] && typeof dataRow[0] === "string"
\*   && !String(dataRow[0]).toLowerCase().includes("total")
IsAccountNameRow(dataRow) ==
    /\ dataRow.isArray
    /\ Truthy(At(dataRow.cells, 0))
    /\ At(dataRow.cells, 0).t = "string"
    /\ ~Includes(ToLowerCase(ToStr(At(dataRow.cells, 0))), StrTotal)

\* nextRow && (nextRow[0] === null || nextRow[0] === undefined || nextRow[0] === "")
HasBlankFirstColumn(nextRow) ==
    /\ nextRow.isArray
    /\ At(nextRow.cells, 0) \in {Null, Undefined, Str(<<>>)}

\* Mutant: the rows after the header are scanned up to and including i + 10
RECURSIVE ScanDataRowsInclusive(_, _, _)
ScanDataRowsInclusive(grid, i, j) ==
    IF j <= Min(i + Lookahead, Len(grid) - 1)
    THEN IF IsAccountNameRow(RowAt(grid, j))
              /\ HasBlankFirstColumn(RowAt(grid, j + 1))
         THEN TRUE
         ELSE ScanDataRowsInclusive(grid, i, j + 1)
    ELSE FALSE

\* The inner loop from j on, for the header at i: TRUE when it returns true
RECURSIVE ScanDataRows(_, _, _)
ScanDataRows(grid, i, j) ==
    IF j < Min(i + Lookahead, Len(grid))
    THEN IF IsAccountNameRow(RowAt(grid, j))
              /\ HasBlankFirstColumn(RowAt(grid, j + 1))
         THEN TRUE
         ELSE ScanDataRows(grid, i, j + 1)
    ELSE FALSE

\* The outer loop from i on
RECURSIVE ScanHeaderRows(_, _)
ScanHeaderRows(grid, i) ==
    IF i < Min(HeaderScanRows, Len(grid))
    THEN IF IsHeaderRow(RowAt(grid, i)) /\ ScanDataRows(grid, i, i + 1)
         THEN TRUE
         ELSE ScanHeaderRows(grid, i + 1)
    ELSE FALSE

detectHierarchicalGLFormat(grid) ==
    IF Len(grid) < MinRows THEN FALSE ELSE ScanHeaderRows(grid, 0)

----------------------------------------------------------------------------
(* Amount and date parsing of the parsers *)

\* Mutant: only the first '$' or ',' is removed (the g flag dropped)
StripCurrencyFirstOnly(s) ==
    LET hits == {i \in 1..Len(s) : s[i] \in {"$", ","}}
    IN  IF hits = {} THEN s
        ELSE SubSeq(s, 1, SetMin(hits) - 1) \o SubSeq(s, SetMin(hits) + 1, Len(s))

\* .replace(/[$,]/g, "")
StripCurrency(s) == SelectSeq(s, LAMBDA c : c \notin {"$", ","})

\* .replace(/\(([^)]+)\)/, "-$1"): the leftmost '(' followed by one or more
\* characters other than ')' and then ')' is replaced by '-' and those
\* characters; only the first match is replaced
NegateParens(s) ==
    LET opens == {i \in 1..Len(s) - 2 :
                      /\ s[i] = "("
                      /\ s[i + 1] # ")"
                      /\ \E j \in (i + 2)..Len(s) : s[j] = ")"}
        i == SetMin(opens)
        j == SetMin({x \in (i + 2)..Len(s) : s[x] = ")"})
    IN  IF opens = {} THEN s
        ELSE SubSeq(s, 1, i - 1) \o <<"-">> \o SubSeq(s, i + 1, j - 1)
                 \o SubSeq(s, j + 1, Len(s))

\* n || 0
OrZero(n) == IF n.k = "nan" \/ (n.k = "fin" /\ n.v = 0) THEN Fin(0) ELSE n

\* let amount = 0; a number passes through, a string is cleaned and parsed,
\* any other cell leaves the 0
ParseAmount(rawAmount) ==
    CASE rawAmount.t = "number" -> rawAmount.n
      [] rawAmount.t = "string" ->
             OrZero(ParseFloat(Trim(NegateParens(StripCurrency(rawAmount.s)))))
      [] OTHER -> Fin(0)

\* The calendar date `days` days after 1899-12-30 as toLocaleDateString("en-US")
\* prints it (month/day/year), in a zone without daylight saving
ExcelDate(days) ==
    LET z == days - 25569 + 719468
        era == z \div 146097
        doe == z - era * 146097
        yoe == (doe - doe \div 1460 + doe \div 36524 - doe \div 146096) \div 365
        doy == doe - (365 * yoe + yoe \div 4 - yoe \div 100)
        mp == (5 * doy + 2) \div 153
        d == doy - (153 * mp + 2) \div 5 + 1
        m == IF mp < 10 THEN mp + 3 ELSE mp - 9
        y == yoe + era * 400 + (IF m <= 2 THEN 1 ELSE 0)
    IN  NatToString(m) \o <<"/">> \o NatToString(d) \o <<"/">> \o NatToString(y)

\* typeof rawDate === "number" ? serial date : String(rawDate || "")
ParseDate(rawDate) ==
    IF rawDate.t = "number"
    THEN IF rawDate.n.k = "fin" THEN ExcelDate(rawDate.n.v \div 100)
         ELSE <<"I", "n", "v", "a", "l", "i", "d", " ", "D", "a", "t", "e">>
    ELSE ToStr(OrEmpty(rawDate))

----------------------------------------------------------------------------
(* parseHierarchicalGL *)

\* Mutant: the header is looked for in every row of the grid
HeaderRowIndexAnywhere(grid) ==
    LET found == {i \in 0..(Len(grid) - 1) : IsHeaderRow(RowAt(grid, i))}
    IN  IF found = {} THEN -1 ELSE SetMin(found)

\* The header scan: the index of the first header row among the first 10
\* rows (the loop breaks there), -1 when there is none
HeaderRowIndex(grid) ==
    LET found == {i \in 0..(Min(HeaderScanRows, Len(grid)) - 1) :
                      IsHeaderRow(RowAt(grid, i))}
    IN  IF found = {} THEN -1 ELSE SetMin(found)

\* headers = row.map((c) => String(c || "").toLowerCase().trim())
Headers(row) ==
    [i \in 1..Len(row.cells) |-> Trim(ToLowerCase(ToStr(OrEmpty(row.cells[i]))))]

\* headers.findIndex((h) => h && test(h)), counted from 0; accepted is the
\* set of the headers that pass the test
FindIndex(headers, accepted) ==
    LET found == {i \in 1..Len(headers) :
                      headers[i] # <<>> /\ headers[i] \in accepted}
    IN  IF found = {} THEN -1 ELSE SetMin(found) - 1

ColumnIndices(headers) ==
    [date |-> FindIndex(headers, {StrDate}),
     amount |-> FindIndex(headers, {StrAmount}),
     memo |-> FindIndex(headers,
                        {h \in Range(headers) :
                            \/ Includes(h, <<"m", "e", "m", "o">>)
                            \/ Includes(h, <<"d", "e", "s", "c", "r", "i",
                                             "p", "t", "i", "o", "n">>)}),
     num |-> FindIndex(headers, {<<"n", "u", "m">>}),
     name |-> FindIndex(headers, {<<"n", "a", "m", "e">>}),
     type |-> FindIndex(headers,
                        {h \in Range(headers) : Includes(h, <<"t", "y", "p", "e">>)})]

\* firstCol && typeof firstCol === "string" && firstCol.trim() !== ""
IsBannerRow(row) ==
    /\ Truthy(At(row.cells, 0))
    /\ At(row.cells, 0).t = "string"
    /\ Trim(At(row.cells, 0).s) # <<>>

\* colIdx >= 0 ? String(row[colIdx] || "") : undefined
OptionalColumn(row, colIdx) ==
    IF colIdx >= 0 THEN Str(ToStr(OrEmpty(At(row.cells, colIdx)))) ELSE Undefined

\* The object pushed for the row at index i (id filled in by the caller)
MakeTransaction(row, i, cols, currentAccountName, amount) ==
    [id |-> "",
     date |-> ParseDate(IF cols.date >= 0 THEN At(row.cells, cols.date)
                        ELSE Str(<<>>)),
     accountNumber |-> <<>>,
     accountName |-> currentAccountName,
     description |-> IF cols.memo >= 0
                     THEN ToStr(OrEmpty(At(row.cells, cols.memo))) ELSE <<>>,
     amount |-> amount,
     reference |-> OptionalColumn(row, cols.num),
     vendor |-> OptionalColumn(row, cols.name),
     rowIndex |-> i + 1]

\* Mutant: a "total" row sets the current account like any banner
RECURSIVE ProcessRowsTotalSets(_, _, _, _)
ProcessRowsTotalSets(grid, i, cols, currentAccountName) ==
    IF i >= Len(grid) THEN <<>>
    ELSE
        LET row == RowAt(grid, i)
            rawAmount == IF cols.amount >= 0 THEN At(row.cells, cols.amount) ELSE Null
            dateVal == IF cols.date >= 0 THEN At(row.cells, cols.date) ELSE Str(<<>>)
            amount == ParseAmount(rawAmount)
        IN  IF ~row.isArray THEN ProcessRowsTotalSets(grid, i + 1, cols, currentAccountName)
            ELSE IF IsBannerRow(row)
            THEN ProcessRowsTotalSets(grid, i + 1, cols, Trim(At(row.cells, 0).s))
            ELSE IF rawAmount \in {Null, Undefined, Str(<<>>)}
            THEN ProcessRowsTotalSets(grid, i + 1, cols, currentAccountName)
            ELSE IF Includes(ToLowerCase(ToStr(dateVal)), StrBeginningBalance)
            THEN ProcessRowsTotalSets(grid, i + 1, cols, currentAccountName)
            ELSE IF amount = Fin(0)
            THEN ProcessRowsTotalSets(grid, i + 1, cols, currentAccountName)
            ELSE <<MakeTransaction(row, i, cols, currentAccountName, amount)>>
                     \o ProcessRowsTotalSets(grid, i + 1, cols, currentAccountName)

\* Mutant: a row is not skipped for "beginning balance" in its date cell
RECURSIVE ProcessRowsKeepBeginning(_, _, _, _)
ProcessRowsKeepBeginning(grid, i, cols, currentAccountName) ==
    IF i >= Len(grid) THEN <<>>
    ELSE
        LET row == RowAt(grid, i)
            rawAmount == IF cols.amount >= 0 THEN At(row.cells, cols.amount) ELSE Null
            amount == ParseAmount(rawAmount)
        IN  IF ~row.isArray THEN ProcessRowsKeepBeginning(grid, i + 1, cols, currentAccountName)
            ELSE IF IsBannerRow(row)
            THEN ProcessRowsKeepBeginning(
                     grid, i + 1, cols,
                     IF StartsWith(ToLowerCase(Trim(At(row.cells, 0).s)), StrTotal)
                     THEN currentAccountName ELSE Trim(At(row.cells, 0).s))
            ELSE IF rawAmount \in {Null, Undefined, Str(<<>>)}
            THEN ProcessRowsKeepBeginning(grid, i + 1, cols, currentAccountName)
            ELSE IF amount = Fin(0)
            THEN ProcessRowsKeepBeginning(grid, i + 1, cols, currentAccountName)
            ELSE <<MakeTransaction(row, i, cols, currentAccountName, amount)>>
                     \o ProcessRowsKeepBeginning(grid, i + 1, cols, currentAccountName)

\* The loop over the data rows from index i on, with the current account
\* name: the transactions pushed from there on, in order
RECURSIVE ProcessRows(_, _, _, _)
ProcessRows(grid, i, cols, currentAccountName) ==
    IF i >= Len(grid) THEN <<>>
    ELSE
        LET row == RowAt(grid, i)
            rawAmount == IF cols.amount >= 0 THEN At(row.cells, cols.amount) ELSE Null
            dateVal == IF cols.date >= 0 THEN At(row.cells, cols.date) ELSE Str(<<>>)
            amount == ParseAmount(rawAmount)
        IN  IF ~row.isArray THEN ProcessRows(grid, i + 1, cols, currentAccountName)
            ELSE IF IsBannerRow(row)
            THEN ProcessRows(
                     grid, i + 1, cols,
                     IF StartsWith(ToLowerCase(Trim(At(row.cells, 0).s)), StrTotal)
                     THEN currentAccountName ELSE Trim(At(row.cells, 0).s))
            ELSE IF rawAmount \in {Null, Undefined, Str(<<>>)}
            THEN ProcessRows(grid, i + 1, cols, currentAccountName)
            ELSE IF Includes(ToLowerCase(ToStr(dateVal)), StrBeginningBalance)
            THEN ProcessRows(grid, i + 1, cols, currentAccountName)
            ELSE IF amount = Fin(0)
            THEN ProcessRows(grid, i + 1, cols, currentAccountName)
            ELSE <<MakeTransaction(row, i, cols, currentAccountName, amount)>>
                     \o ProcessRows(grid, i + 1, cols, currentAccountName)

WarnNoHeader == "Could not find header row in hierarchical GL"

\* The transactions returned (ids not yet drawn) and the console.warn calls
parseHierarchicalGL(grid) ==
    LET headerRowIndex == HeaderRowIndex(grid)
        cols == ColumnIndices(Headers(RowAt(grid, headerRowIndex)))
    IN  IF headerRowIndex = -1
        THEN [transactions |-> <<>>, warnings |-> <<WarnNoHeader>>]
        ELSE [transactions |-> ProcessRows(grid, headerRowIndex + 1, cols, <<>>),
              warnings |-> <<>>]

\* id: generateId() for each transaction pushed; gen[k] is the k-th draw
WithGeneratedIds(transactions, gen) ==
    [k \in 1..Len(transactions) |-> [transactions[k] EXCEPT !.id = gen[k]]]

----------------------------------------------------------------------------
(* parseRawData *)

\* A record of the decoded file: its own keys in Object.keys order, each with
\* its cell
Field(key, value) == [key |-> key, value |-> value]

\* row[key], undefined when the record has no such key
Lookup(row, key) ==
    LET at == {i \in 1..Len(row) : row[i].key = key}
    IN  IF at = {} THEN Undefined ELSE row[SetMin(at)].value

columnPatterns ==
    [date |-> <<
        <<"d", "a", "t", "e">>,
        <<"t", "r", "a", "n", "s", "a", "c", "t", "i", "o", "n", " ", "d", "a", "t", "e">>,
        <<"t", "r", "a", "n", "s", " ", "d", "a", "t", "e">>,
        <<"p", "o", "s", "t", "i", "n", "g", " ", "d", "a", "t", "e">>,
        <<"g", "l", " ", "d", "a", "t", "e">>>>,
     accountNumber |-> <<
        <<"a", "c", "c", "o", "u", "n", "t">>,
        <<"a", "c", "c", "o", "u", "n", "t", " ", "n", "u", "m", "b", "e", "r">>,
        <<"a", "c", "c", "t">>,
        <<"a", "c", "c", "t", " ", "n", "o">>,
        <<"a", "c", "c", "o", "u", "n", "t", " ", "n", "o">>,
        <<"g", "l", " ", "a", "c", "c", "o", "u", "n", "t">>>>,
     accountName |-> <<
        <<"a", "c", "c", "o", "u", "n", "t", " ", "n", "a", "m", "e">>,
        <<"a", "c", "c", "o", "u", "n", "t", " ", "d", "e", "s", "c", "r", "i", "p", "t", "i", "o", "n">>,
        <<"a", "c", "c", "t", " ", "n", "a", "m", "e">>,
        <<"d", "e", "s", "c", "r", "i", "p", "t", "i", "o", "n">>,
        <<"a", "c", "c", "o", "u", "n", "t", " ", "d", "e", "s", "c">>,
        <<"g", "l", " ", "d", "e", "s", "c", "r", "i", "p", "t", "i", "o", "n">>>>,
     amount |-> <<
        <<"a", "m", "o", "u", "n", "t">>,
        <<"d", "e", "b", "i", "t">>,
        <<"c", "r", "e", "d", "i", "t">>,
        <<"v", "a", "l", "u", "e">>,
        <<"t", "r", "a", "n", "s", "a", "c", "t", "i", "o", "n", " ", "a", "m", "o", "u", "n", "t">>,
        <<"t", "r", "a", "n", "s", " ", "a", "m", "o", "u", "n", "t">>>>,
     description |-> <<
        <<"m", "e", "m", "o">>,
        <<"d", "e", "s", "c", "r", "i", "p", "t", "i", "o", "n">>,
        <<"t", "r", "a", "n", "s", "a", "c", "t", "i", "o", "n", " ", "d", "e", "s", "c", "r", "i", "p", "t", "i", "o", "n">>,
        <<"l", "i", "n", "e", " ", "d", "e", "s", "c", "r", "i", "p", "t", "i", "o", "n">>,
        <<"d", "e", "t", "a", "i", "l">>,
        <<"n", "a", "r", "r", "a", "t", "i", "o", "n">>>>,
     reference |-> <<
        <<"r", "e", "f", "e", "r", "e", "n", "c", "e">>,
        <<"r", "e", "f">>,
        <<"d", "o", "c", " ", "n", "o">>,
        <<"d", "o", "c", "u", "m", "e", "n", "t">>,
        <<"i", "n", "v", "o", "i", "c", "e">>,
        <<"c", "h", "e", "c", "k", " ", "n", "o">>,
        <<"v", "o", "u", "c", "h", "e", "r">>>>,
     vendor |-> <<
        <<"v", "e", "n", "d", "o", "r">>,
        <<"p", "a", "y", "e", "e">>,
        <<"s", "u", "p", "p", "l", "i", "e", "r">>,
        <<"c", "u", "s", "t", "o", "m", "e", "r">>,
        <<"p", "a", "r", "t", "y">>>>]

\* Object.keys(sampleRow).map((c) => c.toLowerCase().trim())
AvailableColumns(sampleRow) ==
    [i \in 1..Len(sampleRow) |-> Trim(ToLowerCase(sampleRow[i].key))]

\* The columns that equal or contain the pattern
ColumnMatches(sampleRow, pattern) ==
    LET availableColumns == AvailableColumns(sampleRow)
    IN  {i \in 1..Len(sampleRow) :
            \/ availableColumns[i] = pattern
            \/ Includes(availableColumns[i], pattern)}

\* Mutant: the first header that matches any pattern decides
findColumnFirstHeader(sampleRow, patterns) ==
    LET hits == UNION {ColumnMatches(sampleRow, patterns[v]) : v \in 1..Len(patterns)}
    IN  IF hits = {} THEN Undefined ELSE Str(sampleRow[SetMin(hits)].key)

\* findColumn: the first pattern with a match decides; the key returned is the
\* first original key whose lowercased trimmed text is the matched column
RECURSIVE findColumn(_, _)
findColumn(sampleRow, patterns) ==
    IF patterns = <<>> THEN Undefined
    ELSE LET hits == ColumnMatches(sampleRow, Head(patterns))
             match == AvailableColumns(sampleRow)[SetMin(hits)]
             keys == {i \in 1..Len(sampleRow) :
                          Trim(ToLowerCase(sampleRow[i].key)) = match}
         IN  IF hits # {} /\ match # <<>>
             THEN Str(sampleRow[SetMin(keys)].key)
             ELSE findColumn(sampleRow, Tail(patterns))

ColumnMapping(sampleRow) ==
    [date |-> findColumn(sampleRow, columnPatterns.date),
     accountNumber |-> findColumn(sampleRow, columnPatterns.accountNumber),
     accountName |-> findColumn(sampleRow, columnPatterns.accountName),
     amount |-> findColumn(sampleRow, columnPatterns.amount),
     description |-> findColumn(sampleRow, columnPatterns.description),
     reference |-> findColumn(sampleRow, columnPatterns.reference),
     vendor |-> findColumn(sampleRow, columnPatterns.vendor)]

\* String(column ? row[column] || "" : "")
MappedString(row, column) ==
    IF Truthy(column) THEN ToStr(OrEmpty(Lookup(row, column.s))) ELSE <<>>

\* column ? String(row[column] || "") : undefined
MappedOptional(row, column) ==
    IF Truthy(column) THEN Str(ToStr(OrEmpty(Lookup(row, column.s))))
    ELSE Undefined

\* The transactions returned, ids not yet drawn
parseRawData(records) ==
    IF Len(records) = 0 THEN <<>>
    ELSE LET mapping == ColumnMapping(records[1])
         IN  [index \in 1..Len(records) |->
                 [id |-> "",
                  date |-> MappedString(records[index], mapping.date),
                  accountNumber |-> MappedString(records[index], mapping.accountNumber),
                  accountName |-> MappedString(records[index], mapping.accountName),
                  description |-> MappedString(records[index], mapping.description),
                  amount |-> IF Truthy(mapping.amount)
                             THEN ParseAmount(Lookup(records[index], mapping.amount.s))
                             ELSE Fin(0),
                  reference |-> MappedOptional(records[index], mapping.reference),
                  vendor |-> MappedOptional(records[index], mapping.vendor),
                  rowIndex |-> index]]

----------------------------------------------------------------------------
(* Inputs *)

NamePa == <<"P", "a">>
NamePA == <<"P", "A">>
Name10 == <<"1", "0">>

KeywordPa == <<"p", "a", " ">>

\* The input array: element i is the object at index i
WithPos(s) ==
    [i \in 1..Len(s) |->
        [id |-> s[i].id, accountNumber |-> s[i].accountNumber,
         accountName |-> s[i].accountName, amount |-> s[i].amount, pos |-> i]]

Inputs(ids, names, amounts) ==
    {WithPos(s) : s \in SeqsUpTo([id : ids, accountNumber : {"6000"},
                                  accountName : names, amount : amounts],
                                 MaxTxns)}

SampleSizes == -1..MaxSampleSize

NoResults == [samples |-> <<>>, summary |-> calculateSummary(<<>>, <<>>),
              accountGroups |-> <<>>, filteredTransactionCount |-> 0]

\* The message of a snackbar: its wording and the numbers put into it
Message(wording, a, b) == <<wording, a, b>>

\* The useState initial values of App and ConfigPanel
InitApp ==
    /\ appRawData = <<>>
    /\ appResults = <<>>
    /\ isProcessing = FALSE
    /\ error = <<>>
    /\ snackbar = [open |-> FALSE, message |-> Message("", 0, 0),
                   severity |-> "success"]
    /\ timers = <<>>
    /\ newKeyword = <<>>

InitLocals ==
    /\ pc = "idle"
    /\ transactionsWithIds = <<>>
    /\ filteredTransactions = <<>>
    /\ accountGroups = <<>>
    /\ materialAccounts = <<>>
    /\ results = NoResults
    /\ prevResults = NoResults
    /\ isHierarchicalGL = FALSE
    /\ parsedTransactions = <<>>
    /\ prevParsedTransactions = <<>>
    /\ warnings = <<>>
    /\ InitApp

\* Several accounts, some excluded by the keyword, some immaterial; every id
\* is supplied, and two transactions may carry the same one
Init ==
    /\ rawTransactions \in Inputs({"txn_1", "txn_2"}, {NamePa, NamePA, Name10}, {-3, 2})
    /\ config \in [tolerableMisstatement : {2},
                   testingScope : {2},
                   targetKeywords : {<<>>, <<KeywordPa>>},
                   sampleSize : SampleSizes]
    /\ rawData = <<>>
    /\ data = <<>>
    /\ InitLocals

\* One account, every mix of amounts around the testing scope and of ids
InitSelect ==
    /\ rawTransactions \in Inputs({"", "a", "b"}, {NamePa}, {-3, 1, 2, 3})
    /\ config \in [tolerableMisstatement : {0},
                   testingScope : {1, 2},
                   targetKeywords : {<<>>},
                   sampleSize : SampleSizes]
    /\ rawData = <<>>
    /\ data = <<>>
    /\ InitLocals

\* Keywords: every string of at most two characters over a lower-case letter,
\* its upper-case letter and the blank, and three longer ones
KeywordStrings ==
    SeqsUpTo({"a", "A", " "}, 2)
        \cup {<<"p", "a">>, <<"p", " ", "a">>, <<" ", "\t">>}

KeywordNames ==
    {<<>>, <<"a">>, <<"P", "a">>, <<"a", "P">>, <<"p", " ", "a">>, <<" ", "A">>}

\* Account names and keyword lists of every shape, amounts and ids fixed
InitKeywords ==
    /\ rawTransactions \in Inputs({"a"}, KeywordNames, {1})
    /\ config \in [tolerableMisstatement : {0},
                   testingScope : {2},
                   targetKeywords : SeqsUpTo(KeywordStrings, 2),
                   sampleSize : {MaxSampleSize}]
    /\ rawData = <<>>
    /\ data = <<>>
    /\ InitLocals

\* Inputs whose ids are all supplied, and inputs that lack some
InitTwice ==
    /\ rawTransactions \in Inputs({"", "a", "b"}, {NamePa, Name10}, {-3, 2})
    /\ config \in [tolerableMisstatement : {2},
                   testingScope : {2},
                   targetKeywords : {<<>>},
                   sampleSize : {MaxSampleSize}]
    /\ rawData = <<>>
    /\ data = <<>>
    /\ InitLocals

\* One account whose transactions partly lack an id, and sample sizes that
\* leave a transaction out or take them all
InitFrame ==
    /\ rawTransactions \in Inputs({"", "a"}, {NamePa}, {-3, 2})
    /\ config \in [tolerableMisstatement : {2},
                   testingScope : {2},
                   targetKeywords : {<<>>},
                   sampleSize : {1, MaxSampleSize}]
    /\ rawData = <<>>
    /\ data = <<>>
    /\ InitLocals

\* One call performSampling(rawTransactions, config): its locals and its
\* returned value, for every value generateId may draw
Call ==
    /\ \E gen \in [MissingIds(rawTransactions) -> GeneratedIds] :
         LET r == performSampling(rawTransactions, config, gen)
         IN  /\ rawTransactions' = r.rawTransactions
             /\ config' = r.config
             /\ transactionsWithIds' = r.transactionsWithIds
             /\ filteredTransactions' = r.filteredTransactions
             /\ accountGroups' = r.accountGroups
             /\ materialAccounts' = r.materialAccounts
             /\ results' = r.results
             /\ prevResults' = results
    /\ UNCHANGED sheetVars
    /\ UNCHANGED appVars

PerformSampling ==
    /\ pc = "idle"
    /\ pc' = "done"
    /\ Call

\* A second call with the same arguments
PerformSamplingAgain ==
    /\ pc = "done"
    /\ pc' = "again"
    /\ Call

Next == PerformSampling

NextTwice == PerformSampling \/ PerformSamplingAgain

Spec == Init /\ [][Next]_vars

SpecSelect == InitSelect /\ [][Next]_vars

SpecKeywords == InitKeywords /\ [][Next]_vars

SpecTwice == InitTwice /\ [][NextTwice]_vars

SpecFrame == InitFrame /\ [][NextTwice]_vars

----------------------------------------------------------------------------
(* Sheets *)

MaxGLRows == 3
MaxGridRows == 13
MaxRecords == 2
MaxKeys == 2

DEFAULT_CONFIG ==
    [tolerableMisstatement |-> 15000,
     testingScope |-> 11000,
     targetKeywords |-> <<>>,
     sampleSize |-> 3]

StrUtilities == <<"U", "t", "i", "l", "i", "t", "i", "e", "s">>
StrAccountKey == <<"A", "c", "c", "o", "u", "n", "t", " ", "N", "a", "m", "e">>
StrAmountKey == <<" ", "A", "m", "o", "u", "n", "t">>
StrSlashDate == <<"1", "/", "1">>

HeaderRow == Row(<<Null, Str(<<"D", "a", "t", "e">>), Str(<<"A", "m", "o", "u", "n", "t">>)>>)
\* A row that is neither a header nor a banner nor blank in column 0
FillerRow == Row(<<Num(Fin(500)), Null, Num(Fin(700))>>)
BannerRow == Row(<<Str(StrUtilities)>>)
PaddedBannerRow == Row(<<Str(<<" ", "P", "a", " ">>), Null, Null>>)
TotalRow == Row(<<Str(<<"T", "o", "t", "a", "l", " ", "U", "t", "i", "l", "i", "t", "i", "e", "s">>), Null, Num(Fin(35000))>>)
SubtotalRow == Row(<<Str(<<"S", "u", "b", "t", "o", "t", "a", "l">>), Null, Null>>)
WhiteSpaceRow == Row(<<Str(<<" ">>), Str(StrSlashDate), Num(Fin(70000))>>)
NumberRow == Row(<<Num(Fin(500)), Str(StrSlashDate), Num(Fin(90000))>>)
\* Transaction rows: the serial date 45000 is March 15, 2023
Row300 == Row(<<Null, Num(Fin(4500000)), Num(Fin(30000))>>)
RowParen50 == Row(<<Str(<<>>), Str(StrSlashDate), Str(<<"(", "5", "0", ")">>)>>)
RowNoAmount == Row(<<Null, Str(StrSlashDate), Null>>)
RowBeginning == Row(<<Undefined, Str(<<"B", "e", "g", "i", "n", "n", "i", "n", "g", " ", "B", "a", "l", "a", "n", "c", "e">>), Num(Fin(10000))>>)
RowZero == Row(<<Null, Str(StrSlashDate), Str(<<"n", "/", "a">>)>>)

GLRows ==
    {BannerRow, PaddedBannerRow, TotalRow, WhiteSpaceRow, NumberRow, NoRow,
     Row300, RowParen50, RowNoAmount, RowBeginning, RowZero}

\* n rows ahead of the header
Padding(n) == [i \in 1..n |-> FillerRow]

\* Banners, totals and transaction rows in every order under a header in row
\* 1; and a banner and a transaction row under a header that is the 10th row,
\* the 11th row, or missing
InitGL ==
    /\ rawData \in
          {<<HeaderRow>> \o body : body \in SeqsUpTo(GLRows, MaxGLRows)}
              \cup {Padding(n) \o <<HeaderRow>> \o body :
                        n \in {HeaderScanRows - 1, HeaderScanRows},
                        body \in SeqsUpTo({BannerRow, Row300}, MaxGLRows)}
              \cup SeqsUpTo({BannerRow, Row300}, MaxGLRows)
    /\ data = <<>>
    /\ rawTransactions = <<>>
    /\ config = DEFAULT_CONFIG
    /\ InitLocals

\* Header rows that the header scan accepts: the text of the row contains
\* "date" and also "amount" or "balance"
HeaderRowTransDate ==
    Row(<<Null, Str(<<"T", "r", "a", "n", "s", " ", "D", "a", "t", "e">>), Str(<<"A", "m", "o", "u", "n", "t", " ", "(", "U", "S", "D", ")">>)>>)
HeaderRowBalance == Row(<<Null, Str(<<"D", "a", "t", "e">>), Str(<<"B", "a", "l", "a", "n", "c", "e">>)>>)
HeaderRowUpperCase == Row(<<Null, Str(<<" ", "D", "A", "T", "E", " ">>), Str(<<"A", "M", "O", "U", "N", "T">>)>>)

HeaderRows == {HeaderRow, HeaderRowTransDate, HeaderRowBalance, HeaderRowUpperCase}

\* A header row of each wording in row 1, banners and transaction rows below
InitHeaders ==
    /\ rawData \in
          {<<header>> \o body :
              header \in HeaderRows,
              body \in SeqsUpTo({BannerRow, Row300, RowParen50}, MaxGLRows)}
    /\ data = <<>>
    /\ rawTransactions = <<>>
    /\ config = DEFAULT_CONFIG
    /\ InitLocals

\* The amount cells of a sheet: numbers, strings of every shape, and cells
\* that are neither
AmountCells ==
    {Num(Fin(30000)), Num(Fin(-5000)), Num(Fin(0)), Num(NaN), Num(Inf(1)),
     Str(<<"$", "1", ",", "2", "3", "4", ".", "5", "0">>), Str(<<"(", "5", "0", "0", ")">>), Str(<<"(", "$", "1", ",", "0", "0", "0", ")">>), Str(<<"(", "5", "0", ")">>),
     Str(<<"I", "n", "f", "i", "n", "i", "t", "y">>), Str(<<"-", "I", "n", "f", "i", "n", "i", "t", "y">>), Str(<<"n", "/", "a">>), Str(<<"0", ".", "0", "0">>),
     Str(<<" ", "1", "2", " ">>), Str(<<>>), Null, Undefined, Bool(TRUE)}

\* Every pair of amount cells, as two transaction rows under one banner of a
\* sheet and as two records of a flat file
InitAmount ==
    /\ \E a \in AmountCells, b \in AmountCells :
          /\ rawData = <<HeaderRow, BannerRow,
                         Row(<<Null, Str(StrSlashDate), a>>),
                         Row(<<Null, Str(StrSlashDate), b>>)>>
          /\ data = <<<<Field(StrAccountKey, Str(StrUtilities)),
                        Field(StrAmountKey, a)>>,
                      <<Field(StrAccountKey, Str(StrUtilities)),
                        Field(StrAmountKey, b)>>>>
    /\ rawTransactions = <<>>
    /\ config = DEFAULT_CONFIG
    /\ InitLocals

\* The headers of a flat file
FlatKeys ==
    {StrAmountKey,
     <<"N", "e", "t", " ", "A", "m", "o", "u", "n", "t">>,
     StrAccountKey,
     <<"D", "e", "s", "c", "r", "i", "p", "t", "i", "o", "n">>,
     <<"M", "e", "m", "o">>,
     <<"V", "e", "n", "d", "o", "r", " ", "I", "D">>}

\* Up to MaxKeys different headers, in every order
KeyLists ==
    {keys \in SeqsUpTo(FlatKeys, MaxKeys) :
        \A i, j \in 1..Len(keys) : i # j => keys[i] # keys[j]}

\* The records of a file with these headers: the cell of record r in column c
\* is the number 10 * r + c
RecordsWith(keys, n) ==
    [r \in 1..n |->
        [c \in 1..Len(keys) |-> Field(keys[c], Num(Fin(100 * (10 * r + c))))]]

InitFlat ==
    /\ data \in {RecordsWith(keys, n) : keys \in KeyLists, n \in 0..MaxRecords}
    /\ rawData = <<>>
    /\ rawTransactions = <<>>
    /\ config = DEFAULT_CONFIG
    /\ InitLocals

\* A grid of fillers with at most one header, one row with a string in
\* column 0 and one row with a blank column 0 next to it or one row further
GridWith(len, h, b, bannerRow, e, blankRow) ==
    [i \in 1..len |->
        IF i = h THEN HeaderRow
        ELSE IF i = b THEN bannerRow
        ELSE IF i = e THEN blankRow
        ELSE FillerRow]

InitDetect ==
    /\ rawData \in {GridWith(len, h, b, bannerRow, b + d, blankRow) :
                        len \in 0..MaxGridRows,
                        h \in 0..MaxGridRows,
                        b \in 0..MaxGridRows,
                        bannerRow \in {BannerRow, TotalRow, SubtotalRow},
                        d \in 1..2,
                        blankRow \in {RowNoAmount, RowParen50, Row(<<>>), FillerRow}}
    /\ data = <<>>
    /\ rawTransactions = <<>>
    /\ config = DEFAULT_CONFIG
    /\ InitLocals

\* const isHierarchicalGL = detectHierarchicalGLFormat(rawData)
DetectHierarchicalGLFormat ==
    /\ pc = "idle"
    /\ pc' = "detected"
    /\ isHierarchicalGL' = detectHierarchicalGLFormat(rawData)
    /\ UNCHANGED samplingVars
    /\ UNCHANGED appVars
    /\ UNCHANGED <<rawData, data, parsedTransactions, prevParsedTransactions,
                   warnings>>

\* transactions = parseHierarchicalGL(rawData), for every value generateId
\* may draw
ParseHierarchicalGL ==
    /\ pc = "idle"
    /\ pc' = "parsedGL"
    /\ LET r == parseHierarchicalGL(rawData)
       IN  /\ \E gen \in [1..Len(r.transactions) -> GeneratedIds] :
                 parsedTransactions' = WithGeneratedIds(r.transactions, gen)
           /\ warnings' = warnings \o r.warnings
    /\ UNCHANGED samplingVars
    /\ UNCHANGED appVars
    /\ UNCHANGED <<rawData, data, isHierarchicalGL, prevParsedTransactions>>

\* transactions = parseRawData(data), for every value generateId may draw
CallParseRawData ==
    /\ LET parsed == parseRawData(data)
       IN  \E gen \in [1..Len(parsed) -> GeneratedIds] :
               parsedTransactions' = WithGeneratedIds(parsed, gen)
    /\ prevParsedTransactions' = parsedTransactions
    /\ UNCHANGED samplingVars
    /\ UNCHANGED appVars
    /\ UNCHANGED <<rawData, data, isHierarchicalGL, warnings>>

ParseRawData ==
    /\ pc = "idle"
    /\ pc' = "parsedFlat"
    /\ CallParseRawData

\* A second call parseRawData(data) on the same records
ParseRawDataAgain ==
    /\ pc = "parsedFlat"
    /\ pc' = "parsedFlatAgain"
    /\ CallParseRawData

NextDetect == DetectHierarchicalGLFormat

NextAmount == ParseHierarchicalGL \/ ParseRawData

NextGL == ParseHierarchicalGL

NextFlat == ParseRawData \/ ParseRawDataAgain

SpecDetect == InitDetect /\ [][NextDetect]_vars

SpecGL == InitGL /\ [][NextGL]_vars

SpecAmount == InitAmount /\ [][NextAmount]_vars

SpecFlat == InitFlat /\ [][NextFlat]_vars

SpecHeaders == InitHeaders /\ [][NextGL]_vars

----------------------------------------------------------------------------
(* App and ConfigPanel *)

\* handleError(errorMessage): the values written to error and snackbar
HandleError(errorMessage) ==
    /\ error' = <<errorMessage>>
    /\ snackbar' = [open |-> TRUE, message |-> errorMessage, severity |-> "error"]

\* handleDataLoaded(loaded), called by FileUpload when a file has been parsed
HandleDataLoaded(loaded) ==
    /\ appRawData' = loaded
    /\ appResults' = <<>>
    /\ error' = <<>>
    /\ snackbar' = [open |-> TRUE,
                    message |-> Message("Successfully loaded", Len(loaded), 0),
                    severity |-> "success"]
    /\ UNCHANGED <<config, pc, isProcessing, timers, newKeyword>>
    /\ UNCHANGED callVars
    /\ UNCHANGED sheetVars

\* A click on Run Sampling, which is disabled without data and while
\* processing: handleRunSampling passes a callback to setTimeout that holds
\* the rawData and the config of this render
HandleRunSampling ==
    /\ ~(Len(appRawData) = 0 \/ isProcessing)
    /\ IF Len(appRawData) = 0
       THEN /\ HandleError(Message("Please upload a file first", 0, 0))
            /\ UNCHANGED <<isProcessing, timers>>
       ELSE /\ isProcessing' = TRUE
            /\ error' = <<>>
            /\ timers' = Append(timers, [rawData |-> appRawData, config |-> config])
            /\ UNCHANGED snackbar
    /\ UNCHANGED <<config, pc, appRawData, appResults, newKeyword>>
    /\ UNCHANGED callVars
    /\ UNCHANGED sheetVars

\* The snackbar shown for the results of a run
SamplingSnackbar(samplingResults) ==
    IF Len(samplingResults.samples) = 0
    THEN [open |-> TRUE,
          message |-> Message("No material accounts found", 0, 0),
          severity |-> "error"]
    ELSE [open |-> TRUE,
          message |-> Message("Selected", Len(samplingResults.samples),
                              samplingResults.summary.totalMaterialAccounts),
          severity |-> "success"]

\* The callback of setTimeout runs, 100 ms or more after the click: it
\* samples the rawData and the config it holds
TimerCallback ==
    /\ timers # <<>>
    /\ \E gen \in [MissingIds(Head(timers).rawData) -> GeneratedIds] :
          LET samplingResults ==
                  performSampling(Head(timers).rawData, Head(timers).config,
                                  gen).results
          IN  /\ appResults' = <<samplingResults>>
              /\ snackbar' = SamplingSnackbar(samplingResults)
    /\ isProcessing' = FALSE
    /\ timers' = Tail(timers)
    /\ UNCHANGED <<config, pc, appRawData, error, newKeyword>>
    /\ UNCHANGED callVars
    /\ UNCHANGED sheetVars

\* A click on Reset, which is disabled without data
HandleReset ==
    /\ ~(Len(appRawData) = 0)
    /\ appRawData' = <<>>
    /\ appResults' = <<>>
    /\ config' = DEFAULT_CONFIG
    /\ error' = <<>>
    /\ UNCHANGED <<pc, isProcessing, snackbar, timers, newKeyword>>
    /\ UNCHANGED callVars
    /\ UNCHANGED sheetVars

HandleCloseSnackbar ==
    /\ snackbar.open
    /\ snackbar' = [snackbar EXCEPT !.open = FALSE]
    /\ UNCHANGED <<config, pc, appRawData, appResults, isProcessing, error,
                   timers, newKeyword>>
    /\ UNCHANGED callVars
    /\ UNCHANGED sheetVars

\* What an event of ConfigPanel leaves as it is; the panel is disabled while
\* App is processing
ConfigPanelFrame ==
    /\ ~isProcessing
    /\ UNCHANGED <<pc, appRawData, appResults, isProcessing, error, snackbar,
                   timers>>
    /\ UNCHANGED callVars
    /\ UNCHANGED sheetVars

\* onChange of the keyword text field
SetNewKeyword(text) ==
    /\ newKeyword' = text
    /\ UNCHANGED config
    /\ ConfigPanelFrame

HandleTMChange(value) ==
    /\ config' = [config EXCEPT !.tolerableMisstatement = value]
    /\ UNCHANGED newKeyword
    /\ ConfigPanelFrame

HandleScopeChange(value) ==
    /\ config' = [config EXCEPT !.testingScope = value]
    /\ UNCHANGED newKeyword
    /\ ConfigPanelFrame

HandleSampleSizeChange(value) ==
    /\ config' = [config EXCEPT !.sampleSize = value]
    /\ UNCHANGED newKeyword
    /\ ConfigPanelFrame

\* Mutant: the keyword is appended in upper case without the test for one
\* that is there already
KeywordsAfterAddNoTest(keywords, text) ==
    IF Trim(text) # <<>>
    THEN Append(keywords, ToUpperCase(Trim(text)))
    ELSE keywords

\* The keyword list handleAddKeyword passes on, or the list as it is when it
\* does not call onConfigChange
KeywordsAfterAdd(keywords, text) ==
    IF Trim(text) # <<>> /\ ToUpperCase(Trim(text)) \notin Range(keywords)
    THEN Append(keywords, ToUpperCase(Trim(text)))
    ELSE keywords

\* A click on the add button or Enter in the text field
HandleAddKeyword ==
    /\ config' = [config EXCEPT
                     !.targetKeywords = KeywordsAfterAdd(@, newKeyword)]
    /\ newKeyword' = IF Trim(newKeyword) # <<>>
                         /\ ToUpperCase(Trim(newKeyword))
                                \notin Range(config.targetKeywords)
                     THEN <<>> ELSE newKeyword
    /\ ConfigPanelFrame

\* A click on the delete icon of a keyword chip
HandleRemoveKeyword(keyword) ==
    /\ keyword \in Range(config.targetKeywords)
    /\ config' = [config EXCEPT
                     !.targetKeywords = SelectSeq(@, LAMBDA k : k # keyword)]
    /\ UNCHANGED newKeyword
    /\ ConfigPanelFrame

\* A click on Reset to Defaults (handleReset of ConfigPanel)
HandleResetToDefaults ==
    /\ config' = DEFAULT_CONFIG
    /\ UNCHANGED newKeyword
    /\ ConfigPanelFrame

\* The files loaded: none with transactions, one transaction, two transactions
DataA == WithPos(<<[id |-> "a", accountNumber |-> "6000", accountName |-> NamePa,
                    amount |-> 20000]>>)

DataB == WithPos(<<[id |-> "a", accountNumber |-> "6000", accountName |-> NamePa,
                    amount |-> 30000],
                   [id |-> "b", accountNumber |-> "6000", accountName |-> NamePa,
                    amount |-> -12000]>>)

AppData == {<<>>, DataA, DataB}

\* The values of the sample size slider, of the two number fields and the
\* texts typed into the keyword field
SliderValues == {1, 3}

TMValues == {15000, 20000}

ScopeValues == {11000, 5000}

TypedKeywords ==
    {<<>>, <<" ">>, <<"a">>, <<"p", "a">>, <<"P", "A">>, <<" ", "P", "a", " ">>}

\* App as mounted: no data, DEFAULT_CONFIG
InitMounted ==
    /\ rawTransactions = <<>>
    /\ config = DEFAULT_CONFIG
    /\ rawData = <<>>
    /\ data = <<>>
    /\ InitLocals

NextApp ==
    \/ \E loaded \in AppData : HandleDataLoaded(loaded)
    \/ HandleRunSampling
    \/ TimerCallback
    \/ HandleReset
    \/ HandleCloseSnackbar
    \/ \E value \in SliderValues : HandleSampleSizeChange(value)

NextConfigPanel ==
    \/ \E text \in TypedKeywords : SetNewKeyword(text)
    \/ HandleAddKeyword
    \/ \E keyword \in Range(config.targetKeywords) : HandleRemoveKeyword(keyword)
    \/ HandleResetToDefaults
    \/ \E value \in TMValues : HandleTMChange(value)
    \/ \E value \in ScopeValues : HandleScopeChange(value)
    \/ \E value \in SliderValues : HandleSampleSizeChange(value)

SpecApp == InitMounted /\ [][NextApp]_vars

SpecConfigPanel == InitMounted /\ [][NextConfigPanel]_vars

----------------------------------------------------------------------------
(* Claims *)

Done == pc = "done"

Samples == results.samples

\* The samples of the result that carry the accountGroup name
SamplesOf(name) == SelectSeq(Samples, LAMBDA x : x.accountGroup = name)

OverScope(t) == Abs(t.amount) > config.testingScope

\* C1 as stated: for every account group and every integer sampleSize,
\* selectSamplesFromAccount returns at most sampleSize samples, and the result
\* of performSampling holds at most sampleSize samples per accountGroup name.
C1_AtMostSampleSize_AsClaimed ==
    Done =>
        \A i \in 1..Len(accountGroups) :
            /\ Len(selectSamplesFromAccount(accountGroups[i], config)) <= config.sampleSize
            /\ Len(SamplesOf(accountGroups[i].accountName)) <= config.sampleSize

SampleCap == IF config.sampleSize < 0 THEN 0 ELSE config.sampleSize

\* C1 amended: for every account group and every integer sampleSize,
\* selectSamplesFromAccount returns at most max(sampleSize, 0) samples, and the
\* result of performSampling holds at most max(sampleSize, 0) samples per
\* accountGroup name.
C1_AtMostSampleCap ==
    Done =>
        \A i \in 1..Len(accountGroups) :
            /\ Len(selectSamplesFromAccount(accountGroups[i], config)) <= SampleCap
            /\ Len(SamplesOf(accountGroups[i].accountName)) <= SampleCap

\* A material account with more transactions than a positive sampleSize, cut
\* down to exactly sampleSize samples
C1_Witness ==
    /\ Done
    /\ config.sampleSize > 0
    /\ \E i \in 1..Len(materialAccounts) :
          /\ materialAccounts[i].transactionCount > config.sampleSize
          /\ Len(SamplesOf(materialAccounts[i].accountName)) = config.sampleSize

\* C2: every OVER_SCOPE sample has |amount| > testingScope and no
\* HIGH_VALUE_KEY_ITEM sample has, in the result of performSampling and in what
\* selectSamplesFromAccount returns for every account group.
C2_ReasonMatchesScope ==
    Done =>
        LET ok(x) == /\ x.selectionReason \in {"OVER_SCOPE", "HIGH_VALUE_KEY_ITEM"}
                     /\ (x.selectionReason = "OVER_SCOPE") = OverScope(x)
        IN  /\ \A i \in 1..Len(Samples) : ok(Samples[i])
            /\ \A g \in 1..Len(accountGroups) :
                  LET sel == selectSamplesFromAccount(accountGroups[g], config)
                  IN  \A i \in 1..Len(sel) : ok(sel[i])

\* Two transactions of the account carry the same id, and the result holds a
\* sample of each reason
C2_Witness ==
    /\ Done
    /\ \E i, j \in 1..Len(transactionsWithIds) :
          i # j /\ transactionsWithIds[i].id = transactionsWithIds[j].id
    /\ \E i, j \in 1..Len(Samples) :
          /\ Samples[i].selectionReason = "OVER_SCOPE"
          /\ Samples[j].selectionReason = "HIGH_VALUE_KEY_ITEM"

\* The index in accountGroups of the group with the given name
GroupIndex(name) ==
    CHOOSE i \in 1..Len(accountGroups) : accountGroups[i].accountName = name

\* C3: identifyMaterialAccounts keeps a group iff its totalBalance is strictly
\* greater than tolerableMisstatement, and keeps the groups in input order.
C3_StrictMateriality ==
    Done =>
        /\ \A i \in 1..Len(accountGroups) :
              (accountGroups[i] \in Range(materialAccounts))
                  <=> (accountGroups[i].totalBalance > config.tolerableMisstatement)
        /\ \A j \in 1..Len(materialAccounts) :
              materialAccounts[j] \in Range(accountGroups)
        /\ \A j, k \in 1..Len(materialAccounts) :
              j < k => GroupIndex(materialAccounts[j].accountName)
                           < GroupIndex(materialAccounts[k].accountName)

\* A group exactly at the threshold (dropped), followed by two groups above it,
\* the first of them one cent above (both kept)
C3_Witness ==
    /\ Done
    /\ Len(accountGroups) = 3
    /\ Len(materialAccounts) = 2
    /\ accountGroups[1].totalBalance = config.tolerableMisstatement
    /\ accountGroups[2].totalBalance = config.tolerableMisstatement + 1

\* The groups that hold the transaction t
GroupsHolding(t) ==
    {g \in 1..Len(accountGroups) : t \in Range(accountGroups[g].transactions)}

\* C4: the groups of groupByAccount partition its input: every transaction is
\* in exactly one group, the one of its accountName (compared case-sensitively),
\* in input order within the group; totalBalance is the sum of |amount| over the
\* group's transactions and transactionCount their number.
C4_GroupsPartitionInput ==
    Done =>
        /\ \A i \in 1..Len(filteredTransactions) :
              /\ Cardinality(GroupsHolding(filteredTransactions[i])) = 1
              /\ \A g \in GroupsHolding(filteredTransactions[i]) :
                    accountGroups[g].accountName = filteredTransactions[i].accountName
        /\ \A g, h \in 1..Len(accountGroups) :
              g # h => accountGroups[g].accountName # accountGroups[h].accountName
        /\ \A g \in 1..Len(accountGroups) :
              LET txns == accountGroups[g].transactions
              IN  /\ Range(txns) \subseteq Range(filteredTransactions)
                  /\ \A j, k \in 1..Len(txns) : j < k => txns[j].pos < txns[k].pos
                  /\ accountGroups[g].totalBalance
                         = SumSeq([j \in 1..Len(txns) |-> Abs(txns[j].amount)])
                  /\ accountGroups[g].transactionCount = Len(txns)

\* Two groups whose names differ in case only, one of them with a debit and a
\* credit
C4_Witness ==
    /\ Done
    /\ \E g, h \in 1..Len(accountGroups) :
          /\ accountGroups[g].accountName = NamePa
          /\ accountGroups[h].accountName = NamePA
          /\ \E j, k \in 1..Len(accountGroups[g].transactions) :
                /\ accountGroups[g].transactions[j].amount < 0
                /\ accountGroups[g].transactions[k].amount > 0

\* The index at which the account name is first seen in groupByAccount's input
FirstSeen(name) ==
    SetMin({i \in 1..Len(filteredTransactions) :
                filteredTransactions[i].accountName = name})

\* C5 as stated: groupByAccount returns the groups in first-seen order of the
\* distinct account names, also for names that are strings of decimal digits.
C5_FirstSeenOrder_AsClaimed ==
    Done =>
        \A g, h \in 1..Len(accountGroups) :
            g < h => FirstSeen(accountGroups[g].accountName)
                         < FirstSeen(accountGroups[h].accountName)

Blank(k) == \A i \in 1..Len(k) : k[i] \in {" ", "\t"}

Keywords == Range(config.targetKeywords)

\* C6: with an empty keyword list, or one whose entries are all blank,
\* filterByKeywords returns every input transaction in input order.
C6_NoKeywordsKeepsAll ==
    (Done /\ \A k \in Keywords : Blank(k)) =>
        filteredTransactions = transactionsWithIds

\* A list of blank keywords only, and transactions of several account names
C6_Witness ==
    /\ Done
    /\ Keywords # {}
    /\ \A k \in Keywords : Blank(k)
    /\ \E i, j \in 1..Len(filteredTransactions) :
          filteredTransactions[i].accountName # filteredTransactions[j].accountName

\* The transaction's accountName, upper-cased, contains a non-blank keyword,
\* upper-cased and trimmed
MatchesKeyword(t) ==
    \E k \in Keywords :
        ~Blank(k) /\ Includes(ToUpperCase(t.accountName), Trim(ToUpperCase(k)))

\* C7: with a non-blank keyword, filterByKeywords keeps exactly the transactions
\* that match a keyword, and its output is a subsequence of its input.
C7_KeepsMatchesOnly ==
    (Done /\ \E k \in Keywords : ~Blank(k)) =>
        /\ \A i \in 1..Len(transactionsWithIds) :
              (transactionsWithIds[i] \in Range(filteredTransactions))
                  <=> MatchesKeyword(transactionsWithIds[i])
        /\ Range(filteredTransactions) \subseteq Range(transactionsWithIds)
        /\ \A i, j \in 1..Len(filteredTransactions) :
              i < j => filteredTransactions[i].pos < filteredTransactions[j].pos

\* A lower-case keyword with white space around it that keeps some transactions
\* and drops others
C7_Witness ==
    /\ Done
    /\ Len(filteredTransactions) > 1
    /\ Len(filteredTransactions) < Len(transactionsWithIds)
    /\ \A k \in Keywords : Trim(k) # k /\ ToUpperCase(k) # k /\ ~Blank(k)

\* The material groups that hold the transaction at input index p
MaterialGroupsOf(p) ==
    {g \in 1..Len(materialAccounts) :
        \E j \in 1..Len(materialAccounts[g].transactions) :
            materialAccounts[g].transactions[j].pos = p}

\* C8: an input transaction gives rise to at most one sample, and each sample
\* comes from a transaction of exactly one retained group, the one its
\* accountGroup field names.
C8_SelectedAtMostOnce ==
    Done =>
        /\ \A i, j \in 1..Len(Samples) : i # j => Samples[i].pos # Samples[j].pos
        /\ \A i \in 1..Len(Samples) :
              /\ Samples[i].pos \in 1..Len(transactionsWithIds)
              /\ transactionsWithIds[Samples[i].pos].id = Samples[i].id
              /\ transactionsWithIds[Samples[i].pos].amount = Samples[i].amount
              /\ Cardinality(MaterialGroupsOf(Samples[i].pos)) = 1
              /\ \A g \in MaterialGroupsOf(Samples[i].pos) :
                    materialAccounts[g].accountName = Samples[i].accountGroup

\* Samples of both reasons from one account, and a sample of a second account
C8_Witness ==
    /\ Done
    /\ \E i, j, k \in 1..Len(Samples) :
          /\ Samples[i].accountGroup = Samples[j].accountGroup
          /\ Samples[i].selectionReason = "OVER_SCOPE"
          /\ Samples[j].selectionReason = "HIGH_VALUE_KEY_ITEM"
          /\ Samples[k].accountGroup # Samples[i].accountGroup

\* C9 as stated: after the id backfill every transaction has a non-empty id and
\* the ids are pairwise distinct, whatever generateId draws and whatever ids the
\* caller supplied.
C9_IdsUnique_AsClaimed ==
    Done =>
        /\ \A i \in 1..Len(transactionsWithIds) : transactionsWithIds[i].id # ""
        /\ \A i, j \in 1..Len(transactionsWithIds) :
              i # j => transactionsWithIds[i].id # transactionsWithIds[j].id

AllIdsSupplied == \A i \in 1..Len(rawTransactions) : rawTransactions[i].id # ""

\* C10: two calls with the same transactions, all carrying an id, and the same
\* config return identical results.
C10_SameInputSameResult ==
    (pc = "again" /\ AllIdsSupplied) => results = prevResults

\* A second call on transactions that all carry an id, returning samples
C10_Witness ==
    /\ pc = "again"
    /\ AllIdsSupplied
    /\ Len(rawTransactions) > 1
    /\ Len(Samples) > 1

\* The index in results.accountGroups of the group with the given name
ResultGroupIndex(name) ==
    CHOOSE g \in 1..Len(results.accountGroups) :
        results.accountGroups[g].accountName = name

\* The transaction passes the keyword filter of the config
PassesFilter(t) == (\A k \in Keywords : Blank(k)) \/ MatchesKeyword(t)

\* C11: performSampling composes filter, aggregate, classify, select and
\* summarize in that order: result.accountGroups is the material groups of the
\* filtered transactions, result.samples is the concatenation of the groups'
\* selections in the order of result.accountGroups, no sample comes from a
\* filtered-out or immaterial account, and filteredTransactionCount counts the
\* transactions that pass the keyword filter.
C11_PipelineOrder ==
    Done =>
        /\ results.accountGroups = materialAccounts
        /\ \A g \in 1..Len(accountGroups) :
              (accountGroups[g] \in Range(results.accountGroups))
                  <=> (accountGroups[g].totalBalance > config.tolerableMisstatement)
        /\ \A g \in 1..Len(accountGroups) :
              \A j \in 1..Len(accountGroups[g].transactions) :
                  PassesFilter(accountGroups[g].transactions[j])
        /\ \A g \in 1..Len(results.accountGroups) :
              SamplesOf(results.accountGroups[g].accountName)
                  = selectSamplesFromAccount(results.accountGroups[g], config)
        /\ \A i \in 1..Len(Samples) :
              /\ PassesFilter(Samples[i])
              /\ \E g \in 1..Len(results.accountGroups) :
                    /\ results.accountGroups[g].accountName = Samples[i].accountGroup
                    /\ results.accountGroups[g].totalBalance
                           > config.tolerableMisstatement
        /\ \A i, j \in 1..Len(Samples) :
              i < j => ResultGroupIndex(Samples[i].accountGroup)
                           <= ResultGroupIndex(Samples[j].accountGroup)
        /\ results.filteredTransactionCount
               = Cardinality({i \in 1..Len(transactionsWithIds) :
                                  PassesFilter(transactionsWithIds[i])})

\* A keyword that excludes a transaction, and two material accounts that each
\* contribute a sample
C11_Witness ==
    /\ Done
    /\ results.filteredTransactionCount < Len(rawTransactions)
    /\ Len(results.accountGroups) = 2
    /\ \E i, j \in 1..Len(Samples) :
          Samples[i].accountGroup # Samples[j].accountGroup

Coverage == results.summary.coveragePercentage

\* C12: with no material account performSampling returns no samples and a
\* coverage of 0, and calculateSummary returns a coverage of 0, never an
\* undefined quotient, whenever totalMaterialBalance is 0.
C12_ZeroCoverageWithoutMaterial ==
    Done =>
        /\ results.accountGroups = <<>> =>
              /\ Samples = <<>>
              /\ Coverage.num = 0
              /\ Coverage.den > 0
        /\ results.summary.totalMaterialBalance = 0 =>
              /\ Coverage.num = 0
              /\ Coverage.den > 0

\* Transactions pass the filter and are grouped, but no group is material
C12_Witness ==
    /\ Done
    /\ Len(accountGroups) > 1
    /\ results.accountGroups = <<>>
    /\ config.sampleSize > 0

\* The sum of f over the indices of a sequence
RECURSIVE SumOver(_, _)
SumOver(indices, f) ==
    IF indices = {} THEN 0
    ELSE LET i == CHOOSE x \in indices : TRUE
         IN  f[i] + SumOver(indices \ {i}, f)

SamplesWithReason(reason) ==
    {i \in 1..Len(Samples) : Samples[i].selectionReason = reason}

\* C13: the summary is the reference aggregation of the samples and of the
\* retained groups.
C13_SummaryIsAggregation ==
    Done =>
        LET sm == results.summary
            groups == results.accountGroups
        IN  /\ sm.totalMaterialAccounts = Len(groups)
            /\ sm.totalValueTested
                   = SumOver(DOMAIN Samples, [i \in DOMAIN Samples |-> Abs(Samples[i].amount)])
            /\ sm.totalMaterialBalance
                   = SumOver(DOMAIN groups, [g \in DOMAIN groups |-> groups[g].totalBalance])
            /\ sm.totalTransactionsReviewed
                   = SumOver(DOMAIN groups, [g \in DOMAIN groups |-> groups[g].transactionCount])
            /\ sm.overScopeCount = Cardinality(SamplesWithReason("OVER_SCOPE"))
            /\ sm.highValueCount = Cardinality(SamplesWithReason("HIGH_VALUE_KEY_ITEM"))
            /\ sm.overScopeCount + sm.highValueCount = Len(Samples)

\* Two material accounts, samples of both reasons, one of them a credit
C13_Witness ==
    /\ Done
    /\ Len(results.accountGroups) = 2
    /\ SamplesWithReason("OVER_SCOPE") # {}
    /\ SamplesWithReason("HIGH_VALUE_KEY_ITEM") # {}
    /\ \E i \in 1..Len(Samples) : Samples[i].amount < 0

\* C14: every sample has accountGroup equal to its accountName and
\* groupTotalBalance equal to the totalBalance of the retained group of that
\* name, the sum of |amount| over all filtered transactions of the account.
C14_SampleCarriesGroupBalance ==
    Done =>
        \A i \in 1..Len(Samples) :
            LET named == {g \in 1..Len(results.accountGroups) :
                              results.accountGroups[g].accountName = Samples[i].accountGroup}
                ofAccount == {j \in 1..Len(filteredTransactions) :
                                  filteredTransactions[j].accountName = Samples[i].accountName}
            IN  /\ Samples[i].accountGroup = Samples[i].accountName
                /\ Cardinality(named) = 1
                /\ \A g \in named :
                      Samples[i].groupTotalBalance = results.accountGroups[g].totalBalance
                /\ Samples[i].groupTotalBalance
                       = SumOver(ofAccount,
                                 [j \in ofAccount |-> Abs(filteredTransactions[j].amount)])

\* An account with more transactions than samples: the balance carried is more
\* than the amounts selected
C14_Witness ==
    /\ Done
    /\ \E i \in 1..Len(Samples) :
          /\ Len(SamplesOf(Samples[i].accountGroup)) = 1
          /\ Samples[i].groupTotalBalance > Abs(Samples[i].amount)

ParsedGL == pc = "parsedGL"

ParsedFlat == pc = "parsedFlat"

\* The amount cell of the k-th of the two inputs of InitAmount
AmountCellOf(k) == Lookup(data[k], StrAmountKey)

\* The amount a parser gave the k-th input: that of the transaction made from
\* it, and 0 when the hierarchical parser dropped the row
AmountGiven(k) ==
    LET made == {j \in 1..Len(parsedTransactions) :
                     parsedTransactions[j].rowIndex = (IF ParsedGL THEN k + 2 ELSE k)}
    IN  IF made = {} THEN Fin(0)
        ELSE parsedTransactions[CHOOSE j \in made : TRUE].amount

\* C15 as claimed: every transaction of parseRawData and parseHierarchicalGL
\* has a finite amount, whatever the raw cell (numbers including NaN and the
\* infinities, strings such as "Infinity", unparseable strings, other cells).
C15_AmountsFinite_AsClaimed ==
    (ParsedGL \/ ParsedFlat) =>
        \A j \in 1..Len(parsedTransactions) : parsedTransactions[j].amount.k = "fin"

\* The value of the strings the claim and the scenarios name, in cents
ExpectedAmount ==
    [c \in {Str(<<"$", "1", ",", "2", "3", "4", ".", "5", "0">>), Str(<<"(", "5", "0", "0", ")">>), Str(<<"(", "$", "1", ",", "0", "0", "0", ")">>), Str(<<"(", "5", "0", ")">>), Str(<<"n", "/", "a">>)} |->
        CASE c = Str(<<"$", "1", ",", "2", "3", "4", ".", "5", "0">>) -> Fin(123450)
          [] c = Str(<<"(", "5", "0", "0", ")">>) -> Fin(-50000)
          [] c = Str(<<"(", "$", "1", ",", "0", "0", "0", ")">>) -> Fin(-100000)
          [] c = Str(<<"(", "5", "0", ")">>) -> Fin(-5000)
          [] OTHER -> Fin(0)]

\* C16: in both parsers the amount string loses every '$' and ',' and a
\* parenthesized value becomes its negative before it is parsed: "$1,234.50"
\* gives 1234.50, "(500)" gives -500, "($1,000)" gives -1000, and a string
\* with no parsable number gives 0.
C16_AmountStringNormalized ==
    (ParsedGL \/ ParsedFlat) =>
        \A k \in 1..Len(data) :
            AmountCellOf(k) \in DOMAIN ExpectedAmount
                => AmountGiven(k) = ExpectedAmount[AmountCellOf(k)]

\* The flat parser has read "$1,234.50" and "($1,000)"
C16_Witness ==
    /\ ParsedFlat
    /\ AmountCellOf(1) = Str(<<"$", "1", ",", "2", "3", "4", ".", "5", "0">>)
    /\ AmountCellOf(2) = Str(<<"(", "$", "1", ",", "0", "0", "0", ")">>)
    /\ Len(parsedTransactions) = 2

Detected == pc = "detected"

\* Column 0 of a row of the grid (undefined for a null row)
FirstColumn(r) == At(rawData[r].cells, 0)

BlankFirstColumn(r) ==
    rawData[r].isArray /\ FirstColumn(r) \in {Null, Undefined, Str(<<>>)}

\* C17 as claimed: for a grid of any length the result is true exactly when
\* one of the first 10 rows is a header row and one of the 10 rows after it
\* has a non-empty string not starting with "total" in column 0 and is
\* immediately followed by a row whose column 0 is null, undefined or "".
C17_DetectsPattern_AsClaimed ==
    Detected =>
        (isHierarchicalGL <=>
            \E h \in 1..10 :
                /\ h <= Len(rawData)
                /\ IsHeaderRow(rawData[h])
                /\ \E b \in (h + 1)..(h + 10) :
                      /\ b + 1 <= Len(rawData)
                      /\ FirstColumn(b).t = "string"
                      /\ FirstColumn(b).s # <<>>
                      /\ ~StartsWith(ToLowerCase(FirstColumn(b).s), StrTotal)
                      /\ BlankFirstColumn(b + 1))

\* C17: the result is true exactly when the grid has at least 10 rows, one of
\* the first 10 rows is a header row, and one of the 9 rows after it has a
\* non-empty string that does not contain "total" (in any case) in column 0
\* and is immediately followed by a row whose column 0 is null, undefined
\* or "".
C17_DetectsPatternInLongGrid ==
    Detected =>
        (isHierarchicalGL <=>
            /\ Len(rawData) >= 10
            /\ \E h \in 1..10 :
                  /\ IsHeaderRow(rawData[h])
                  /\ \E b \in (h + 1)..(h + 9) :
                        /\ b + 1 <= Len(rawData)
                        /\ FirstColumn(b).t = "string"
                        /\ FirstColumn(b).s # <<>>
                        /\ \A i \in 1..Len(FirstColumn(b).s) - 4 :
                              ToLowerCase(SubSeq(FirstColumn(b).s, i, i + 4)) # StrTotal
                        /\ BlankFirstColumn(b + 1))

\* The header is the last row scanned for one and the format is detected
C17_Witness ==
    /\ Detected
    /\ isHierarchicalGL
    /\ IsHeaderRow(rawData[10])

\* The row of the grid (counted from 1) that the header scan stops at: the
\* first header row among the first 10 rows; 0 when there is none
HeaderPos ==
    LET found == {r \in 1..Len(rawData) : r <= 10 /\ IsHeaderRow(rawData[r])}
    IN  IF found = {} THEN 0 ELSE SetMin(found)

\* The sheet row a transaction was made from
RowOf(j) == parsedTransactions[j].rowIndex

\* Column 0 is a non-empty string that does not start with "total"
ClaimedBanner(r) ==
    /\ rawData[r].isArray
    /\ FirstColumn(r).t = "string"
    /\ FirstColumn(r).s # <<>>
    /\ ~StartsWith(ToLowerCase(FirstColumn(r).s), StrTotal)

\* Column 0 is a string that starts with "total"
ClaimedTotal(r) ==
    /\ rawData[r].isArray
    /\ FirstColumn(r).t = "string"
    /\ StartsWith(ToLowerCase(FirstColumn(r).s), StrTotal)

\* The claim's scenario: a banner "Utilities" and the amounts 300 and "(50)"
UtilitiesSheet == <<HeaderRow, BannerRow, Row300, RowParen50>>

UtilitiesParsed ==
    /\ Len(parsedTransactions) = 2
    /\ parsedTransactions[1].accountName = StrUtilities
    /\ parsedTransactions[1].amount = Fin(30000)
    /\ parsedTransactions[2].accountName = StrUtilities
    /\ parsedTransactions[2].amount = Fin(-5000)

\* C18 as claimed: the transactions come in row order with accountNumber ""
\* and accountName the trimmed text of the latest row before them, after the
\* header, whose column 0 is a non-empty string not starting with "total";
\* neither those rows nor the "total" rows become transactions.
C18_AccountFromLastBanner_AsClaimed ==
    ParsedGL =>
        /\ \A i, j \in 1..Len(parsedTransactions) : i < j => RowOf(i) < RowOf(j)
        /\ \A j \in 1..Len(parsedTransactions) :
              LET before == {r \in (HeaderPos + 1)..(RowOf(j) - 1) : ClaimedBanner(r)}
              IN  /\ parsedTransactions[j].accountNumber = <<>>
                  /\ ~ClaimedBanner(RowOf(j))
                  /\ ~ClaimedTotal(RowOf(j))
                  /\ before # {} =>
                        parsedTransactions[j].accountName
                            = Trim(FirstColumn(SetMax(before)).s)
        /\ rawData = UtilitiesSheet => UtilitiesParsed

\* Column 0 is a string with something left after trimming
NonBlankString(r) ==
    /\ rawData[r].isArray
    /\ FirstColumn(r).t = "string"
    /\ \E i \in 1..Len(FirstColumn(r).s) : FirstColumn(r).s[i] \notin {" ", "\t"}

\* The trimmed text of column 0 starts with "total" in any case
TotalText(r) == StartsWith(ToLowerCase(Trim(FirstColumn(r).s)), StrTotal)

\* C18: the transactions come in row order with accountNumber "" and
\* accountName the trimmed text of the latest row before them, after the
\* header, whose column 0 is a string that is non-empty after trimming and
\* whose trimmed text does not start with "total" in any case ("" when there
\* is no such row); no row whose column 0 is a string non-empty after trimming
\* becomes a transaction, and the "Utilities" scenario gives 300 and -50.
C18_AccountFromLastNonBlankBanner ==
    ParsedGL =>
        /\ \A i, j \in 1..Len(parsedTransactions) : i < j => RowOf(i) < RowOf(j)
        /\ \A j \in 1..Len(parsedTransactions) :
              LET before == {r \in (HeaderPos + 1)..(RowOf(j) - 1) :
                                 NonBlankString(r) /\ ~TotalText(r)}
              IN  /\ parsedTransactions[j].accountNumber = <<>>
                  /\ RowOf(j) > HeaderPos
                  /\ ~NonBlankString(RowOf(j))
                  /\ parsedTransactions[j].accountName
                         = IF before = {} THEN <<>>
                           ELSE Trim(FirstColumn(SetMax(before)).s)
        /\ rawData = UtilitiesSheet => UtilitiesParsed

\* A transaction right after a "total" row keeps the banner before that row
C18_Witness ==
    /\ ParsedGL
    /\ \E j \in 1..Len(parsedTransactions) :
          /\ RowOf(j) > 2
          /\ NonBlankString(RowOf(j) - 1)
          /\ TotalText(RowOf(j) - 1)
          /\ NonBlankString(RowOf(j) - 2)
          /\ parsedTransactions[j].accountName = StrUtilities

\* The amount and date cells of a row under the header of HeaderRow
AmountCell(r) == At(rawData[r].cells, 2)
DateCell(r) == At(rawData[r].cells, 1)

\* A row after the header that is an array and not a banner or total row
Candidate(r) == r > HeaderPos /\ rawData[r].isArray /\ ~NonBlankString(r)

\* The row meets one of the three conditions for being skipped
Skipped(r) ==
    \/ AmountCell(r) \in {Null, Undefined, Str(<<>>)}
    \/ Includes(ToLowerCase(ToStr(DateCell(r))), StrBeginningBalance)
    \/ ParseAmount(AmountCell(r)) = Fin(0)

\* The transactions without their ids
WithoutIds(txns) == [k \in 1..Len(txns) |-> [txns[k] EXCEPT !.id = ""]]

\* C19: a candidate row whose amount cell is null, undefined or "", whose date
\* cell contains "beginning balance" in any case, or whose amount parses to 0
\* gives no transaction, every other candidate row gives one, every emitted
\* amount is non-zero, and the grid with a skipped row taken out (its place
\* left empty) parses to the same transactions.
C19_SkippedRowsLeaveNoTrace ==
    (ParsedGL /\ HeaderPos > 0) =>
        /\ \A r \in 1..Len(rawData) :
              Candidate(r) =>
                  (Skipped(r) <=> ~\E j \in 1..Len(parsedTransactions) : RowOf(j) = r)
        /\ \A j \in 1..Len(parsedTransactions) :
              parsedTransactions[j].amount # Fin(0)
        /\ \A r \in 1..Len(rawData) :
              (Candidate(r) /\ Skipped(r)) =>
                  parseHierarchicalGL([rawData EXCEPT ![r] = NoRow]).transactions
                      = WithoutIds(parsedTransactions)

\* A "Beginning Balance" row between a banner and a transaction of that banner
C19_Witness ==
    /\ ParsedGL
    /\ \E j \in 1..Len(parsedTransactions) :
          /\ RowOf(j) > 2
          /\ Candidate(RowOf(j) - 1)
          /\ DateCell(RowOf(j) - 1).t = "string"
          /\ Includes(ToLowerCase(DateCell(RowOf(j) - 1).s), StrBeginningBalance)
          /\ AmountCell(RowOf(j) - 1) = Num(Fin(10000))
          /\ NonBlankString(RowOf(j) - 2)
          /\ parsedTransactions[j].accountName = StrUtilities

\* C20: when none of the first 10 rows is a header row (the empty grid
\* included) parseHierarchicalGL returns no transaction and has emitted its
\* warning.
C20_NoHeaderWarnsAndReturnsEmpty ==
    (ParsedGL /\ ~\E r \in 1..Len(rawData) : r <= 10 /\ IsHeaderRow(rawData[r])) =>
        /\ parsedTransactions = <<>>
        /\ warnings = <<"Could not find header row in hierarchical GL">>

\* The header is the 11th row, with a transaction row under it
C20_Witness ==
    /\ ParsedGL
    /\ Len(rawData) > 11
    /\ IsHeaderRow(rawData[11])
    /\ \E r \in 12..Len(rawData) : rawData[r] = Row300
    /\ warnings # <<>>

\* The flat file has been parsed, once or twice
FlatParsed == pc \in {"parsedFlat", "parsedFlatAgain"}

\* The lowercased, trimmed text of header c equals or contains the variant
HeaderMatches(c, variant) ==
    LET text == Trim(ToLowerCase(data[1][c].key))
    IN  text = variant \/ Includes(text, variant)

\* The variants of a field's list that some header of the first record matches
MatchedVariants(variants) ==
    {v \in 1..Len(variants) :
        \E c \in 1..Len(data[1]) : HeaderMatches(c, variants[v])}

\* The column a field is read from: the first header matched by the earliest
\* matched variant; 0 when no variant matches any header
ColumnOf(variants) ==
    IF MatchedVariants(variants) = {} THEN 0
    ELSE SetMin({c \in 1..Len(data[1]) :
                    HeaderMatches(c, variants[SetMin(MatchedVariants(variants))])})

\* The text of the number in column c of record r
CellText(r, c) == NatToString(10 * r + c)

\* The text, the optional text and the amount read from column c of record r;
\* column 0 stands for no column
TextField(r, c) == IF c = 0 THEN <<>> ELSE CellText(r, c)

OptionalField(r, c) == IF c = 0 THEN Undefined ELSE Str(CellText(r, c))

AmountField(r, c) == IF c = 0 THEN Fin(0) ELSE Fin(100 * (10 * r + c))

\* C21: every field of every record parsed by parseRawData is the value under
\* the header matched by the earliest variant of the field's list that matches
\* a header of the first record; a field without a match is "" (date,
\* accountNumber, accountName, description), undefined (reference, vendor) or
\* 0 (amount); no records give no transactions
C21_FieldsFromEarliestVariant ==
    FlatParsed =>
        /\ Len(parsedTransactions) = Len(data)
        /\ Len(data) > 0 =>
              LET columns == [field \in DOMAIN columnPatterns |->
                                 ColumnOf(columnPatterns[field])]
              IN  \A r \in 1..Len(data) :
                      LET t == parsedTransactions[r]
                      IN  /\ t.date = TextField(r, columns.date)
                          /\ t.accountNumber = TextField(r, columns.accountNumber)
                          /\ t.accountName = TextField(r, columns.accountName)
                          /\ t.description = TextField(r, columns.description)
                          /\ t.amount = AmountField(r, columns.amount)
                          /\ t.reference = OptionalField(r, columns.reference)
                          /\ t.vendor = OptionalField(r, columns.vendor)

\* Headers "Description" and "Memo": the description is read from the second
\* column although "Description" comes first, the account name from the
\* first, and the fields without a header are empty
C21_Witness ==
    /\ pc = "parsedFlat"
    /\ Len(data) = 2
    /\ Len(data[1]) = 2
    /\ ToLowerCase(data[1][1].key) = columnPatterns.description[2]
    /\ ToLowerCase(data[1][2].key) = columnPatterns.description[1]
    /\ parsedTransactions[2].description = <<"2", "2">>
    /\ parsedTransactions[2].accountName = <<"2", "1">>
    /\ parsedTransactions[2].accountNumber = <<>>
    /\ parsedTransactions[2].amount = Fin(0)
    /\ parsedTransactions[2].vendor = Undefined

\* C22: parsing the same records a second time returns the transactions of
\* the first call, field for field, the id included
C22_SecondParseIdentical_AsClaimed ==
    pc = "parsedFlatAgain" => parsedTransactions = prevParsedTransactions

\* C23: with a sample size of 0 or less selectSamplesFromAccount returns no
\* sample for any account group, whatever it holds over the testing scope,
\* and performSampling returns no samples and still reports the material
\* account groups
C23_NonPositiveSizeSelectsNothing ==
    (Done /\ config.sampleSize <= 0) =>
        /\ \A g \in 1..Len(accountGroups) :
              selectSamplesFromAccount(accountGroups[g], config) = <<>>
        /\ results.samples = <<>>
        /\ results.summary.overScopeCount = 0
        /\ results.summary.highValueCount = 0
        /\ results.accountGroups
               = SelectSeq(accountGroups,
                           LAMBDA g : g.totalBalance > config.tolerableMisstatement)

\* A negative sample size and a material account with two transactions over
\* the testing scope
C23_Witness ==
    /\ Done
    /\ config.sampleSize < 0
    /\ results.samples = <<>>
    /\ \E g \in 1..Len(results.accountGroups) :
          Cardinality({j \in 1..Len(results.accountGroups[g].transactions) :
                          Abs(results.accountGroups[g].transactions[j].amount)
                              > config.testingScope}) >= 2

FirstN(s, n) == SubSeq(s, 1, IF n < Len(s) THEN n ELSE Len(s))

\* C25: for a sample size of 0 or more the samples of every account group are
\* the first min(sampleSize, transactionCount) transactions of the group in
\* stable descending |amount| order, in that order, the OVER_SCOPE samples
\* ahead of the HIGH_VALUE_KEY_ITEM ones
C25_SamplesAreSortedPrefix_AsClaimed ==
    (Done /\ config.sampleSize >= 0) =>
        \A g \in 1..Len(results.accountGroups) :
            LET group == results.accountGroups[g]
                chosen == SamplesOf(group.accountName)
                prefix == FirstN(OrderByAbsDesc(group.transactions),
                                 config.sampleSize)
            IN  /\ [i \in 1..Len(chosen) |-> chosen[i].pos]
                       = [i \in 1..Len(prefix) |-> prefix[i].pos]
                /\ \A i, j \in 1..Len(chosen) :
                      (chosen[i].selectionReason = "HIGH_VALUE_KEY_ITEM"
                           /\ chosen[j].selectionReason = "OVER_SCOPE") => j < i

\* C26: every transaction of parseHierarchicalGL comes from a row whose first
\* column is null, undefined or ""; a number or a whitespace-only string in
\* the first column never gives a transaction
C26_OnlyBlankFirstColumnParsed_AsClaimed ==
    ParsedGL =>
        \A j \in 1..Len(parsedTransactions) : BlankFirstColumn(RowOf(j))

\* C27: under every header row that the header scan accepts, each row with a
\* blank first column and a non-zero amount becomes a transaction
C27_AcceptedHeaderRowsParsed_AsClaimed ==
    (ParsedGL /\ IsHeaderRow(rawData[1])) =>
        \A r \in 2..Len(rawData) :
            rawData[r] \in {Row300, RowParen50} =>
                \E j \in 1..Len(parsedTransactions) : RowOf(j) = r

\* The bounds of the summary that do not depend on the sample size
SummaryBounds ==
    /\ results.summary.totalValueTested <= results.summary.totalMaterialBalance
    /\ Coverage.den > 0
    /\ 0 <= Coverage.num
    /\ Coverage.num <= 100 * Coverage.den
    /\ Len(Samples) <= results.summary.totalTransactionsReviewed

AppConfigs == {[DEFAULT_CONFIG EXCEPT !.sampleSize = value] : value \in SliderValues}

\* The results shown were computed from the rawData now loaded
ResultsFromLoadedData ==
    \E cfg \in AppConfigs :
        \E gen \in [MissingIds(appRawData) -> GeneratedIds] :
            appResults[1] = performSampling(appRawData, cfg, gen).results

\* C29: in App the results are null or were computed from the rawData now
\* loaded, whatever the order of Run Sampling clicks, Reset clicks, file
\* loads and timer callbacks; at most one callback is pending, and
\* isProcessing is false once the callback has run
C29_ResultsFromLoadedData_AsClaimed ==
    /\ appResults # <<>> => ResultsFromLoadedData
    /\ Len(timers) <= 1
    /\ isProcessing <=> timers # <<>>

Keywords30 == config.targetKeywords

\* The text in the keyword field is blank or, trimmed and in upper case, a
\* keyword of the config
BlankOrPresent ==
    \/ Trim(newKeyword) = <<>>
    \/ \E i \in 1..Len(Keywords30) : Keywords30[i] = ToUpperCase(Trim(newKeyword))

====
